---- MODULE Spec2Model ----
(***************************************************************************)
(* A model of the streaming protocol translation engine of z.ai2api_deno:  *)
(* the SSE decoder (utils/sse_parser.ts), the tool invocation extractor    *)
(* and its stripping counterpart (app/utils/tools.ts), the thinking        *)
(* content transformer and the stream / full response handlers             *)
(* (core/response_handlers.ts).                                            *)
(*                                                                         *)
(* Text.  A JavaScript string is modelled as a sequence of symbols.  A     *)
(* symbol is either one special character ("{", "}", the double quote,     *)
(* the backslash, ...) or a word: a maximal run of characters none of      *)
(* which is special.  The three-backtick code fence is the one symbol     *)
(* "FENCE", and the two Chinese key phrases of FUNCTION_CALL_PATTERN are   *)
(* the symbols "CALLFN" and "PARAM".  Two adjacent words stand for their   *)
(* concatenation; the alphabet of the model holds no word that is the      *)
(* concatenation of other words of the alphabet, digits apart, so a word   *)
(* the code looks for (json, tool_calls, arguments, ...) is one symbol.    *)
(***************************************************************************)
EXTENDS Integers, Sequences, FiniteSets, TLC

VARIABLES
  THINKING_PROCESSING, \* config.THINKING_PROCESSING: "think", "strip" or another mode
  \* One streaming request (StreamResponseHandler)
  hasTools,            \* this.hasTools
  reqModel,            \* this.upstreamReq.model
  upstream,            \* what callUpstreamApi does for this request
  pc,                  \* where handle() is: "call", "role", "stream", "finally", "done"
  out,                 \* the lines handle() has yielded
  streamEnded,         \* this.streamEnded
  bufferedContent,     \* this.bufferedContent
  toolCalls,           \* this.toolCalls
  sentInitialAnswer,   \* the local variable of handle()
  readerLocked,        \* iterEvents has taken the reader of the body
  releaseCount,        \* calls of reader.releaseLock()
  nEvents,             \* events the decoder has yielded
  doneFrames,          \* frames handled with done = true or phase = "done"
  errorFrames,         \* frames handled that carry an error
  thrown,              \* exceptions raised inside the try block of handle()
  propagated,          \* an exception left handle()
  thinkingOnly,        \* all content processed so far came from thinking frames
  \* One run of the decoder (SSEParser.iterEvents)
  body,                \* the bytes of the upstream body
  pos,                 \* how many of them read() has returned
  sseBuffer,           \* buffer: the incomplete last line
  pendingLead,         \* the decoder holds the lead byte of a character
  events,              \* the events yielded
  sseDone,             \* read() has reported done
  chunks,              \* chunks read
  \* One run of the extractor and the stripper
  responseText,        \* the response text
  nParts,              \* pieces it is made of
  toolPc,              \* "build", "extracted", "stripped"
  extracted,           \* what extractToolInvocations(text) did
  stripped,            \* what removeToolJsonContent(text) returned
  \* One run of the thinking content transformer
  thinkIn,             \* the content given to transformThinkingContent
  nThinkParts,         \* pieces it is made of
  thinkPc,             \* "build", "once", "twice"
  thinkOnce,           \* transformThinkingContent(content)
  thinkTwice,          \* transformThinkingContent of that result
  \* One non-streaming request (NonStreamResponseHandler)
  fullTools,           \* this.hasTools
  fullUpstream,        \* what callUpstreamApi does for this request
  fullPc,              \* where handle() is: "call", "collect", "build", "done"
  fullContent,         \* fullContent.join("")
  nFullEvents,         \* events the decoder has yielded
  fullErrors,          \* frames carrying an error that reached the loop body
  fullResult,          \* how handle() ended: a Response or an exception
  \* The consumer of handle() in the router (the ReadableStream of the reply)
  cancelled,           \* the client has cancelled the stream
  eventsAtCancel,      \* nEvents when it did
  \* Two streaming requests served at the same time
  pairTools,           \* hasTools of each request
  pairPc,              \* where handle() of each request is
  pairOut,             \* the lines yielded for each request
  pairSeen,            \* the upstream frames each request has received
  handlers,            \* the fields of each StreamResponseHandler instance
  nPairEvents,         \* frames delivered to the two requests together
  \* The configuration module (config.ts)
  env,                 \* Deno.env: the value of each variable, or Unset
  cfgPc,               \* "start" before config.ts is evaluated, "loaded" after
  loaded,              \* the config object
  \* One run of _extractEditContent
  editIn,              \* the editContent given to _extractEditContent
  nEditParts,          \* pieces it is made of
  editPc,              \* "build" or "extracted"
  editOut,             \* what _extractEditContent returned
  \* Model lookups of successive requests
  modelIds,            \* model identifiers of the requests so far, in order
  resolved,            \* what getModelConfig returned for each
  \* The chat completions route
  skipAuthToken,       \* config.SKIP_AUTH_TOKEN
  apiToken,            \* config.AUTH_TOKEN
  authorization,       \* the Authorization header of the request
  bodyValid,           \* the request body passes OpenAIRequestSchema
  streamFlag,          \* request.stream
  routerPc,            \* position in the route handler
  status,              \* ctx.response.status, 0 when not set
  tokenFetches,        \* calls of getAuthToken
  upstreamCalls        \* handlers started for the request

\* ------------------------------------------------------------------ text

Quote == "\""
Backslash == "\\"
Fence == "FENCE"
\* One backtick.
Backtick == "BACKTICK"
Specials == {"{", "}", "[", "]", Quote, Backslash, ":", ",", " ", "\n", "<", ">", "/", Fence, Backtick}
Whitespace == {" ", "\n"}

IsWord(c) == c \notin Specials

\* The words that are not made of [\w\-\.] characters only.
NonNameWords == {"CALLFN", "PARAM"}

RECURSIVE Flatten(_)
Flatten(ss) == IF ss = <<>> THEN <<>> ELSE Head(ss) \o Flatten(Tail(ss))

Min(a, b) == IF a < b THEN a ELSE b
Max(a, b) == IF a > b THEN a ELSE b

\* s.substring(a - 1, b): the symbols at the 1-based positions a..b, both
\* clamped to the text; empty when b < a.
Sub(s, a, b) ==
  IF Min(b, Len(s)) < Max(a, 1) THEN <<>> ELSE SubSeq(s, Max(a, 1), Min(b, Len(s)))

RECURSIVE SkipWs(_, _)
\* The first position >= i that holds no whitespace (Len(s) + 1 when none).
SkipWs(s, i) ==
  IF i <= Len(s) /\ s[i] \in Whitespace THEN SkipWs(s, i + 1) ELSE i

RECURSIVE SkipWsBack(_, _)
SkipWsBack(s, i) ==
  IF i >= 1 /\ s[i] \in Whitespace THEN SkipWsBack(s, i - 1) ELSE i

\* String.prototype.trim
Trim(s) == Sub(s, SkipWs(s, 1), SkipWsBack(s, Len(s)))

RECURSIVE IndexFrom(_, _, _)
\* The first position >= i holding symbol c, 0 when there is none.
IndexFrom(s, c, i) ==
  IF i > Len(s) THEN 0
  ELSE IF s[i] = c THEN i
  ELSE IndexFrom(s, c, i + 1)

\* Whether the literal pattern p occurs in s at position i.
MatchAt(s, p, i) ==
  /\ i >= 1
  /\ i + Len(p) - 1 <= Len(s)
  /\ \A k \in 1..Len(p) : s[i + k - 1] = p[k]

\* ------------------------------------------------------------------ JSON
\* A JSON value is a record tagged by t: "null", "bool" (b), "num" (n: its digits),
\* "str" (s: the symbols between the quotes, escapes kept as written),
\* "arr" (items) or "obj" (m: the members [k, v] in source order).

JNull == [t |-> "null"]
JBool(b) == [t |-> "bool", b |-> b]
JNum(n) == [t |-> "num", n |-> n]
JStr(s) == [t |-> "str", s |-> s]
JArr(items) == [t |-> "arr", items |-> items]
JObj(m) == [t |-> "obj", m |-> m]
\* JavaScript's undefined: what a missing property reads as.
JUndefined == [t |-> "undefined"]

\* The digits.
NumWords == {"0", "1"}

RECURSIVE NumEnd(_, _)
\* The last position of the run of digits that starts at i.
NumEnd(s, i) ==
  IF i + 1 <= Len(s) /\ s[i + 1] \in NumWords THEN NumEnd(s, i + 1) ELSE i

\* The words a backslash may precede in a JSON string: those that start
\* with one of b, f, n, r, t.
EscWords == {"b", "f", "name", "function", "tool_calls", "true", "false", "null", "n", "t"}

ParseFail == [ok |-> FALSE, v |-> JNull, n |-> 0]
ParseOk(v, n) == [ok |-> TRUE, v |-> v, n |-> n]

RECURSIVE StrEnd(_, _)
\* The position of the quote that closes a JSON string whose content
\* starts at j, 0 when the string is not a valid JSON string.
StrEnd(s, j) ==
  IF j > Len(s) THEN 0
  ELSE IF s[j] = Quote THEN j
  ELSE IF s[j] = "\n" THEN 0
  ELSE IF s[j] = Backslash
    THEN IF j + 1 <= Len(s) /\ s[j + 1] \in ({Quote, Backslash, "/"} \cup EscWords)
           THEN StrEnd(s, j + 2)
           ELSE 0
  ELSE StrEnd(s, j + 1)

RECURSIVE LookupFrom(_, _, _)
LookupFrom(m, key, i) ==
  IF i = 0 THEN JUndefined
  ELSE IF m[i].k = key THEN m[i].v
  ELSE LookupFrom(m, key, i - 1)

\* The members of an object with each duplicate key kept once, at its
\* first place and with its last value, as JSON.parse builds the object.
RECURSIVE DedupFrom(_, _, _)
DedupFrom(m, i, acc) ==
  IF i > Len(m) THEN acc
  ELSE IF \E j \in 1..(i - 1) : m[j].k = m[i].k THEN DedupFrom(m, i + 1, acc)
  ELSE DedupFrom(m, i + 1, Append(acc, [k |-> m[i].k, v |-> LookupFrom(m, m[i].k, Len(m))]))

RECURSIVE ParseValue(_, _)
RECURSIVE ParseMembersFrom(_, _, _)
RECURSIVE ParseItemsFrom(_, _, _)

\* Members of an object, i at the position where a key must start.
ParseMembersFrom(s, i, acc) ==
  IF i > Len(s) \/ s[i] # Quote THEN ParseFail
  ELSE LET e == StrEnd(s, i + 1) IN
    IF e = 0 THEN ParseFail
    ELSE LET c == SkipWs(s, e + 1) IN
      IF c > Len(s) \/ s[c] # ":" THEN ParseFail
      ELSE LET r == ParseValue(s, SkipWs(s, c + 1)) IN
        IF ~r.ok THEN ParseFail
        ELSE LET acc2 == Append(acc, [k |-> Sub(s, i + 1, e - 1), v |-> r.v])
                 d == SkipWs(s, r.n)
             IN IF d > Len(s) THEN ParseFail
                ELSE IF s[d] = "}" THEN ParseOk(JObj(DedupFrom(acc2, 1, <<>>)), d + 1)
                ELSE IF s[d] = "," THEN ParseMembersFrom(s, SkipWs(s, d + 1), acc2)
                ELSE ParseFail

\* Items of an array, i at the position where an item must start.
ParseItemsFrom(s, i, acc) ==
  LET r == ParseValue(s, i) IN
    IF ~r.ok THEN ParseFail
    ELSE LET acc2 == Append(acc, r.v)
             d == SkipWs(s, r.n)
         IN IF d > Len(s) THEN ParseFail
            ELSE IF s[d] = "]" THEN ParseOk(JArr(acc2), d + 1)
            ELSE IF s[d] = "," THEN ParseItemsFrom(s, SkipWs(s, d + 1), acc2)
            ELSE ParseFail

\* One JSON value starting exactly at i; n is the position after it.
ParseValue(s, i) ==
  IF i > Len(s) THEN ParseFail
  ELSE IF s[i] = "{" THEN
    LET j == SkipWs(s, i + 1) IN
      IF j <= Len(s) /\ s[j] = "}" THEN ParseOk(JObj(<<>>), j + 1)
      ELSE ParseMembersFrom(s, j, <<>>)
  ELSE IF s[i] = "[" THEN
    LET j == SkipWs(s, i + 1) IN
      IF j <= Len(s) /\ s[j] = "]" THEN ParseOk(JArr(<<>>), j + 1)
      ELSE ParseItemsFrom(s, j, <<>>)
  ELSE IF s[i] = Quote THEN
    LET e == StrEnd(s, i + 1) IN
      IF e = 0 THEN ParseFail ELSE ParseOk(JStr(Sub(s, i + 1, e - 1)), e + 1)
  ELSE IF s[i] \in NumWords THEN
    \* a number: no leading zero
    IF s[i] = "0" /\ NumEnd(s, i) > i THEN ParseFail
    ELSE ParseOk(JNum(Sub(s, i, NumEnd(s, i))), NumEnd(s, i) + 1)
  ELSE IF s[i] = "true" THEN ParseOk(JBool(TRUE), i + 1)
  ELSE IF s[i] = "false" THEN ParseOk(JBool(FALSE), i + 1)
  ELSE IF s[i] = "null" THEN ParseOk(JNull, i + 1)
  ELSE ParseFail

\* JSON.parse: ok is FALSE where JSON.parse throws SyntaxError.
WholeText(s, r) == IF r.ok /\ SkipWs(s, r.n) > Len(s) THEN r ELSE ParseFail

JSONParse(s) == WholeText(s, ParseValue(s, SkipWs(s, 1)))

\* value[key] in JavaScript for a value that is not null or undefined: the
\* member of that name of an object, undefined for anything else.
GetProp(v, key) ==
  IF v.t = "obj" THEN LookupFrom(v.m, key, Len(v.m)) ELSE JUndefined

\* key in value, for an object.
HasKey(v, key) == v.t = "obj" /\ \E i \in 1..Len(v.m) : v.m[i].k = key

\* JavaScript truthiness.
Truthy(v) ==
  CASE v.t = "undefined" -> FALSE
    [] v.t = "null" -> FALSE
    [] v.t = "bool" -> v.b
    [] v.t = "num" -> v.n # <<"0">>
    [] v.t = "str" -> v.s # <<>>
    [] OTHER -> TRUE

\* typeof value
TypeOf(v) ==
  CASE v.t = "undefined" -> "undefined"
    [] v.t = "bool" -> "boolean"
    [] v.t = "num" -> "number"
    [] v.t = "str" -> "string"
    [] OTHER -> "object"

RECURSIVE Stringify(_)
RECURSIVE StringifyItems(_, _)
RECURSIVE StringifyMembers(_, _)

StringifyItems(items, i) ==
  IF i > Len(items) THEN <<>>
  ELSE (IF i > 1 THEN <<",">> ELSE <<>>)
       \o (IF items[i].t = "undefined" THEN <<"null">> ELSE Stringify(items[i]))
       \o StringifyItems(items, i + 1)

StringifyMembers(m, i) ==
  IF i > Len(m) THEN <<>>
  ELSE (IF i > 1 THEN <<",">> ELSE <<>>)
       \o <<Quote>> \o m[i].k \o <<Quote, ":">> \o Stringify(m[i].v)
       \o StringifyMembers(m, i + 1)

\* JSON.stringify of a parsed value.
Stringify(v) ==
  CASE v.t = "null" -> <<"null">>
    [] v.t = "bool" -> IF v.b THEN <<"true">> ELSE <<"false">>
    [] v.t = "num" -> v.n
    [] v.t = "str" -> <<Quote>> \o v.s \o <<Quote>>
    [] v.t = "arr" -> <<"[">> \o StringifyItems(v.items, 1) \o <<"]">>
    [] v.t = "obj" -> <<"{">> \o StringifyMembers(v.m, 1) \o <<"}">>

\* ------------------------------------------------- tool call extraction

\* config.SCAN_LIMIT, counted in symbols (an environment setting; the
\* model runs with a small one).
SCAN_LIMIT == 48

RECURSIVE FenceCloseFrom(_, _)
\* The lazy end of (\{.*?\})\s*FENCE: the first "}" at or after e that is
\* followed by optional whitespace and a fence; 0 when there is none.
FenceCloseFrom(s, e) ==
  IF e > Len(s) THEN 0
  ELSE IF s[e] = "}" /\ SkipWs(s, e + 1) <= Len(s) /\ s[SkipWs(s, e + 1)] = Fence THEN e
  ELSE FenceCloseFrom(s, e + 1)

\* A match of TOOL_CALL_FENCE_PATTERN starting at a: [ok, a, b, e, f] with
\* group 1 = s[b..e] and the whole match = s[a..f].
FenceMatchAt(s, a) ==
  LET b == SkipWs(s, a + 2)
      e == IF b <= Len(s) /\ s[b] = "{" THEN FenceCloseFrom(s, b + 1) ELSE 0
  IN IF a + 1 <= Len(s) /\ s[a] = Fence /\ s[a + 1] = "json" /\ e # 0
       THEN [ok |-> TRUE, a |-> a, b |-> b, e |-> e, f |-> SkipWs(s, e + 1)]
       ELSE [ok |-> FALSE, a |-> a, b |-> 0, e |-> 0, f |-> 0]

RECURSIVE FenceMatchesFrom(_, _, _)
\* matchAll with the g flag: the matches left to right, each search
\* starting after the previous match.
FenceMatchesFrom(s, p, acc) ==
  IF p > Len(s) THEN acc
  ELSE LET m == FenceMatchAt(s, p) IN
    IF m.ok THEN FenceMatchesFrom(s, m.f + 1, Append(acc, m))
    ELSE FenceMatchesFrom(s, p + 1, acc)

TOOL_CALL_FENCE_PATTERN(s) == FenceMatchesFrom(s, 1, <<>>)

FirstCloseBrace(s, e) == IndexFrom(s, "}", e)

\* A match of FUNCTION_CALL_PATTERN starting at a: [ok, a, e], the whole
\* match = s[a..e].
FunctionCallMatchAt(s, a) ==
  LET b == SkipWs(s, a + 1)
      c == SkipWs(s, b + 1)
      \* ([\w\-\.]+)\s*(?:PARAM|arguments)[:] : the name is a run of name
      \* words, the longest one after which the keyword and the colon follow
      ks == {k \in c..Len(s) :
               /\ \A x \in c..k : IsWord(s[x]) /\ s[x] \notin NonNameWords
               /\ SkipWs(s, k + 1) + 1 <= Len(s)
               /\ s[SkipWs(s, k + 1)] \in {"PARAM", "arguments"}
               /\ s[SkipWs(s, k + 1) + 1] = ":"}
      k == IF ks = {} THEN 0 ELSE CHOOSE x \in ks : \A y \in ks : y <= x
      d == SkipWs(s, k + 1)
      g == SkipWs(s, d + 2)
      e == IF g <= Len(s) /\ s[g] = "{" THEN FirstCloseBrace(s, g + 1) ELSE 0
  IN IF /\ a <= Len(s) /\ s[a] = "CALLFN"
        /\ b <= Len(s) /\ s[b] = ":"
        /\ ks # {}
        /\ e # 0
       THEN [ok |-> TRUE, a |-> a, e |-> e]
       ELSE [ok |-> FALSE, a |-> a, e |-> 0]

RECURSIVE FunctionCallMatchesFrom(_, _, _)
FunctionCallMatchesFrom(s, p, acc) ==
  IF p > Len(s) THEN acc
  ELSE LET m == FunctionCallMatchAt(s, p) IN
    IF m.ok THEN FunctionCallMatchesFrom(s, m.e + 1, Append(acc, Sub(s, m.a, m.e)))
    ELSE FunctionCallMatchesFrom(s, p + 1, acc)

\* text.match(FUNCTION_CALL_PATTERN): the pattern has the g flag, so the
\* result is the list of the whole matches (no capture groups), or null,
\* modelled as the empty list.
FUNCTION_CALL_PATTERN(s) == FunctionCallMatchesFrom(s, 1, <<>>)

RECURSIVE CountingScan(_, _, _, _, _)
\* A scan that counts every brace, inside strings too.
CountingScan(s, j, braceCount, inString, escapeNext) ==
  IF ~(j <= Len(s) /\ braceCount > 0) THEN [j |-> j, braceCount |-> braceCount]
  ELSE IF s[j] = "{" THEN CountingScan(s, j + 1, braceCount + 1, inString, FALSE)
  ELSE IF s[j] = "}" THEN CountingScan(s, j + 1, braceCount - 1, inString, FALSE)
  ELSE CountingScan(s, j + 1, braceCount, inString, FALSE)

RECURSIVE BalancedScan(_, _, _, _, _)
\* The inner while loop of the bracket balance scan: the final [j, braceCount].
BalancedScan(s, j, braceCount, inString, escapeNext) ==
  IF ~(j <= Len(s) /\ braceCount > 0) THEN [j |-> j, braceCount |-> braceCount]
  ELSE IF escapeNext THEN BalancedScan(s, j + 1, braceCount, inString, FALSE)
  ELSE IF s[j] = Backslash THEN BalancedScan(s, j + 1, braceCount, inString, TRUE)
  ELSE IF s[j] = Quote THEN BalancedScan(s, j + 1, braceCount, ~inString, FALSE)
  ELSE IF ~inString /\ s[j] = "{" THEN BalancedScan(s, j + 1, braceCount + 1, inString, FALSE)
  ELSE IF ~inString /\ s[j] = "}" THEN BalancedScan(s, j + 1, braceCount - 1, inString, FALSE)
  ELSE BalancedScan(s, j + 1, braceCount, inString, FALSE)

\* For a "{" at i: the position after the brace that balances it, 0 when
\* the scan reaches the end with braceCount > 0.
BalancedEnd(s, i) ==
  LET r == BalancedScan(s, i + 1, 1, FALSE, FALSE) IN
    IF r.braceCount = 0 THEN r.j ELSE 0

\* func.arguments after the "Ensure arguments field is a string" step.
NormalizeArguments(args) ==
  IF Truthy(args)
    THEN IF TypeOf(args) = "object" THEN JStr(Stringify(args))
         ELSE IF TypeOf(args) # "string" THEN JStr(Stringify(args))
         ELSE args
    ELSE args

\* obj with member key set to val (obj has the member).
SetProp(obj, key, val) ==
  JObj([i \in 1..Len(obj.m) |->
          IF obj.m[i].k = key THEN [k |-> key, v |-> val] ELSE obj.m[i]])

\* One pass of "for (const tc of toolCalls)" over one element. Reading
\* tc.function of null throws TypeError.
NormalizeToolCall(tc) ==
  LET func == GetProp(tc, <<"function">>)
      args == GetProp(func, <<"arguments">>)
  IN IF Truthy(func) /\ Truthy(args)
       THEN SetProp(tc, <<"function">>, SetProp(func, <<"arguments">>, NormalizeArguments(args)))
       ELSE tc

NormalizeThrows(items) == \E i \in 1..Len(items) : items[i].t = "null"

NormalizeToolCalls(items) == [i \in 1..Len(items) |-> NormalizeToolCall(items[i])]

\* The result of extractToolInvocations: null, a list, or a thrown exception.
ExtractNull == [kind |-> "null", calls |-> <<>>]
ExtractList(calls) == [kind |-> "list", calls |-> calls]
ExtractThrow == [kind |-> "throw", calls |-> <<>>]

\* The body of both try blocks: parse jsonStr, take tool_calls, normalise.
\* ok is FALSE when the block falls through or its catch is entered.
NoCalls == [ok |-> FALSE, calls |-> <<>>]

\* if (toolCalls && Array.isArray(toolCalls)) { normalise; return toolCalls }
ToolCallsOfValue(parsedToolCalls) ==
  IF /\ Truthy(parsedToolCalls) /\ parsedToolCalls.t = "arr"
     /\ ~NormalizeThrows(parsedToolCalls.items)
    THEN [ok |-> TRUE, calls |-> NormalizeToolCalls(parsedToolCalls.items)]
    ELSE NoCalls

\* const toolCalls = parsedData.tool_calls, inside the try
ToolCallsOfParsed(parsedData) ==
  IF parsedData.ok THEN ToolCallsOfValue(GetProp(parsedData.v, <<"tool_calls">>))
  ELSE NoCalls

ToolCallsOfJson(jsonStr) == ToolCallsOfParsed(JSONParse(jsonStr))

\* The first of two attempts that yields tool calls.
OrElse(r, next) == IF r.ok THEN r ELSE next

\* return toolCalls of an attempt that yielded some, else go on.
ReturnOr(r, next) == IF r.ok THEN ExtractList(r.calls) ELSE next

RECURSIVE ExtractFromFences(_, _, _)
\* Attempt 1: the first fenced block that yields tool calls.
ExtractFromFences(s, blocks, k) ==
  IF k > Len(blocks) THEN NoCalls
  ELSE OrElse(ToolCallsOfJson(Sub(s, blocks[k].b, blocks[k].e)),
              ExtractFromFences(s, blocks, k + 1))

RECURSIVE ExtractInline(_, _)
\* Attempt 2: the leftmost "{" whose balanced span yields tool calls.
ExtractInline(s, i) ==
  IF i > Len(s) THEN NoCalls
  ELSE IF s[i] = "{" /\ BalancedEnd(s, i) # 0
    THEN OrElse(ToolCallsOfJson(Sub(s, i, BalancedEnd(s, i) - 1)), ExtractInline(s, i + 1))
  ELSE ExtractInline(s, i + 1)

\* Attempt 3: naturalLangMatch[1] and [2] are the second and third whole
\* matches; .trim() of undefined throws TypeError outside any try.
NaturalCallOf(functionName, argumentsStr) ==
  IF JSONParse(argumentsStr).ok
    THEN ExtractList(<<JObj(<<[k |-> <<"id">>, v |-> JStr(<<"call_id">>)],
                              [k |-> <<"type">>, v |-> JStr(<<"function">>)],
                              [k |-> <<"function">>, v |->
                                 JObj(<<[k |-> <<"name">>, v |-> JStr(functionName)],
                                        [k |-> <<"arguments">>, v |-> JStr(argumentsStr)]>>)]>>)>>)
    ELSE ExtractNull

NaturalOfMatch(naturalLangMatch) ==
  IF naturalLangMatch = <<>> THEN ExtractNull
  ELSE IF Len(naturalLangMatch) < 3 THEN ExtractThrow
  ELSE NaturalCallOf(Trim(naturalLangMatch[2]), Trim(naturalLangMatch[3]))

ExtractNatural(s) == NaturalOfMatch(FUNCTION_CALL_PATTERN(s))

\* The three attempts in order on the scanned prefix.
ExtractFrom(scannableText) ==
  ReturnOr(OrElse(ExtractFromFences(scannableText, TOOL_CALL_FENCE_PATTERN(scannableText), 1),
                  ExtractInline(scannableText, 1)),
           ExtractNatural(scannableText))

\* A scan that reads the whole text, with no limit.
UnboundedExtract(text) ==
  IF text = <<>> THEN ExtractNull
  ELSE ExtractFrom(text)

extractToolInvocations(text) ==
  IF text = <<>> THEN ExtractNull
  ELSE ExtractFrom(Sub(text, 1, SCAN_LIMIT))

\* ------------------------------------------------- tool JSON stripping

\* JSON.parse succeeded and "tool_calls" in parsedData
HasToolCalls(parsedData) == parsedData.ok /\ HasKey(parsedData.v, <<"tool_calls">>)

\* removeToolCallBlock as String.prototype.replace calls it: its argument
\* is the matched substring, so match[1] is the second character of the
\* match (a backtick), JSON.parse of it throws, and the function returns
\* match[0], the first character of the match.
removeToolCallBlock(matched) ==
  LET jsonContent == IF matched[1] = Fence THEN <<Backtick>> ELSE Sub(matched, 2, 2)
  IN IF HasToolCalls(JSONParse(jsonContent)) THEN <<>>
     ELSE IF matched[1] = Fence THEN <<Backtick>> ELSE Sub(matched, 1, 1)

RECURSIVE ReplaceFences(_, _, _)
\* text.replace(TOOL_CALL_FENCE_PATTERN, removeToolCallBlock)
ReplaceFences(s, blocks, k) ==
  IF k > Len(blocks)
    THEN Sub(s, (IF k = 1 THEN 1 ELSE blocks[k - 1].f + 1), Len(s))
    ELSE Sub(s, (IF k = 1 THEN 1 ELSE blocks[k - 1].f + 1), blocks[k].a - 1)
         \o removeToolCallBlock(Sub(s, blocks[k].a, blocks[k].f))
         \o ReplaceFences(s, blocks, k + 1)

RECURSIVE RemoveInline(_, _)
\* Step 2: drop every balanced span that parses to an object with a
\* tool_calls key, keep every other character.
RemoveInline(s, i) ==
  IF i > Len(s) THEN <<>>
  ELSE IF /\ s[i] = "{"
          /\ BalancedEnd(s, i) # 0
          /\ HasToolCalls(JSONParse(Sub(s, i, BalancedEnd(s, i) - 1)))
    THEN RemoveInline(s, BalancedEnd(s, i))
    ELSE <<s[i]>> \o RemoveInline(s, i + 1)

removeToolJsonContent(text) ==
  LET cleanedText == ReplaceFences(text, TOOL_CALL_FENCE_PATTERN(text), 1)
  IN Trim(RemoveInline(cleanedText, 1))

\* ------------------------------------------------- thinking content

RECURSIVE FindFrom(_, _, _)
\* The first position >= i where the literal pattern p occurs, 0 when none.
FindFrom(s, p, i) ==
  IF i + Len(p) - 1 > Len(s) THEN 0
  ELSE IF MatchAt(s, p, i) THEN i
  ELSE FindFrom(s, p, i + 1)

RECURSIVE ReplaceAll(_, _, _, _)
\* s.replace(/p/g, r) for a literal pattern p, from position i on.
ReplaceAll(s, p, r, i) ==
  IF i > Len(s) THEN <<>>
  ELSE IF MatchAt(s, p, i) THEN r \o ReplaceAll(s, p, r, i + Len(p))
  ELSE <<s[i]>> \o ReplaceAll(s, p, r, i + 1)

TagSummaryOpen == <<"<", "summary", ">">>
TagSummaryClose == <<"<", "/", "summary", ">">>
TagThinkingClose == <<"<", "/", "thinking", ">">>
TagFullOpen == <<"<", "Full", ">">>
TagFullClose == <<"<", "/", "Full", ">">>
TagDetailsClose == <<"<", "/", "details", ">">>
TagSpanOpen == <<"<", "span", ">">>
TagSpanClose == <<"<", "/", "span", ">">>

RECURSIVE RemoveSummary(_, _)
\* content.replace(/<summary>[\s\S]*?<\/summary>/g, '')
RemoveSummary(s, i) ==
  IF i > Len(s) THEN <<>>
  ELSE IF MatchAt(s, TagSummaryOpen, i) /\ FindFrom(s, TagSummaryClose, i + 3) # 0
    THEN RemoveSummary(s, FindFrom(s, TagSummaryClose, i + 3) + 4)
    ELSE <<s[i]>> \o RemoveSummary(s, i + 1)

RECURSIVE ReplaceDetailsOpen(_, _, _)
\* content.replace(/<details[^>]*>/g, r)
ReplaceDetailsOpen(s, r, i) ==
  IF i > Len(s) THEN <<>>
  ELSE IF MatchAt(s, <<"<", "details">>, i) /\ IndexFrom(s, ">", i + 2) # 0
    THEN r \o ReplaceDetailsOpen(s, r, IndexFrom(s, ">", i + 2) + 1)
    ELSE <<s[i]>> \o ReplaceDetailsOpen(s, r, i + 1)

RECURSIVE RemoveLinePrefix(_, _)
\* content.replace(/^> /gm, '')
RemoveLinePrefix(s, i) ==
  IF i > Len(s) THEN <<>>
  ELSE IF (i = 1 \/ s[i - 1] = "\n") /\ MatchAt(s, <<">", " ">>, i)
    THEN RemoveLinePrefix(s, i + 2)
    ELSE <<s[i]>> \o RemoveLinePrefix(s, i + 1)

\* A display mode step that leaves the markup in place in every mode.
RawDisplayMode(s, mode) == s

\* The display mode step of transformThinkingContent.
ApplyDisplayMode(s, mode) ==
  IF mode = "think"
    THEN ReplaceAll(ReplaceDetailsOpen(s, TagSpanOpen, 1), TagDetailsClose, TagSpanClose, 1)
  ELSE IF mode = "strip"
    THEN ReplaceAll(ReplaceDetailsOpen(s, <<>>, 1), TagDetailsClose, <<>>, 1)
  ELSE s

transformThinkingContent(content) ==
  LET c1 == RemoveSummary(content, 1)
      c2 == ReplaceAll(ReplaceAll(ReplaceAll(c1, TagThinkingClose, <<>>, 1),
                                  TagFullOpen, <<>>, 1), TagFullClose, <<>>, 1)
      c3 == Trim(c2)
      c4 == ApplyDisplayMode(c3, THINKING_PROCESSING)
      c5 == RemoveLinePrefix(c4, 1)
      c6 == ReplaceAll(c5, <<"\n", ">", " ">>, <<"\n">>, 1)
  IN Trim(c6)

\* ------------------------------------------------- model configuration

PRIMARY_MODEL == "GLM-4.6"

\* SUPPORTED_MODELS: id, name and upstreamId of each entry, in order.
SUPPORTED_MODELS ==
  << [id |-> "GLM-4.6", name |-> "GLM-4.6", upstreamId |-> "GLM-4-6-API-V1"],
     [id |-> "GLM-4.5", name |-> "GLM-4.5", upstreamId |-> "0727-360B-API"],
     [id |-> "GLM-4.5V", name |-> "GLM-4.5V", upstreamId |-> "glm-4.5v"],
     [id |-> "GLM-4.5-Air", name |-> "GLM-4.5-Air", upstreamId |-> "0727-106B-API"] >>

\* modelId.toLowerCase().trim() on the identifiers of the model.
ToLowerTrim(modelId) ==
  CASE modelId = "GLM-4.6" -> "glm-4.6"
    [] modelId = "GLM-4.5" -> "glm-4.5"
    [] modelId = "GLM-4.5V" -> "glm-4.5v"
    [] modelId = "GLM-4.5-Air" -> "glm-4.5-air"
    [] modelId = "GLM-4-6-API-V1" -> "glm-4-6-api-v1"
    [] modelId = "0727-360B-API" -> "0727-360b-api"
    [] modelId = "0727-106B-API" -> "0727-106b-api"
    [] OTHER -> modelId

normalizeModelId(modelId) ==
  LET normalized == ToLowerTrim(modelId) IN
  CASE normalized \in {"glm-4-6-api-v1", "glm-4.6", "glm4.6", "glm_4.6"} -> "GLM-4.6"
    [] normalized \in {"glm-4.5v", "glm4.5v", "glm_4.5v", "gpt-4-vision-preview"} -> "GLM-4.5V"
    [] normalized \in {"0727-360b-api", "glm-4.5", "glm4.5", "glm_4.5", "gpt-4"} -> "GLM-4.5"
    [] OTHER -> normalized

getModelConfig(modelId) ==
  LET normalizedModelId == normalizeModelId(modelId)
      found == {i \in 1..Len(SUPPORTED_MODELS) : SUPPORTED_MODELS[i].id = normalizedModelId}
  IN IF found = {} THEN SUPPORTED_MODELS[1]
     ELSE SUPPORTED_MODELS[CHOOSE i \in found : \A j \in found : i <= j]

\* ------------------------------------------------- output chunks

\* One line of the streaming output. kind is "chunk" for data: <JSON chunk>,
\* "DONE" for data: [DONE] and "error" for the data: {"error": ...} line.
\* A chunk's delta holds at most one key (deltaKey, "none" for {}): role,
\* content / reasoning_content (text) or tool_calls (index, call).
Line(kind, model, deltaKey, text, index, call, finishReason) ==
  [kind |-> kind, model |-> model, deltaKey |-> deltaKey, text |-> text,
   index |-> index, call |-> call, finish_reason |-> finishReason]

createOpenAIResponseChunk(model, deltaKey, text, finishReason) ==
  Line("chunk", model, deltaKey, text, 0, JUndefined, finishReason)

ToolCallChunk(model, index, call) ==
  Line("chunk", model, "tool_calls", <<>>, index, call, "none")

DoneLine == Line("DONE", "", "none", <<>>, 0, JUndefined, "none")
ErrorLine == Line("error", "", "none", <<>>, 0, JUndefined, "none")

IsFinishChunk(l) == l.kind = "chunk" /\ l.finish_reason # "none"
IsDoneLine(l) == l.kind = "DONE"
IsRoleChunk(l) == l.kind = "chunk" /\ l.deltaKey = "role"
IsPayloadChunk(l) ==
  l.kind = "chunk" /\ l.deltaKey \in {"content", "reasoning_content", "tool_calls"}

\* handleUpstreamError: the end chunk carries config.PRIMARY_MODEL.
handleUpstreamError ==
  << createOpenAIResponseChunk(PRIMARY_MODEL, "none", <<>>, "stop"), DoneLine >>

\* ------------------------------------------------- stream handler

\* _hasError: a frame's error, data.error and data.inner.error are error
\* objects when present, so each is a boolean here.
_hasError(upstreamData) ==
  upstreamData.error \/ upstreamData.dataError \/ upstreamData.innerError

\* _extractEditContent: editContent.split("</details>")[1], "" when the
\* split has one part.
_extractEditContent(editContent) ==
  LET first == FindFrom(editContent, TagDetailsClose, 1)
      second == IF first = 0 THEN 0 ELSE FindFrom(editContent, TagDetailsClose, first + 4)
  IN IF first = 0 THEN <<>>
     ELSE IF second = 0 THEN Sub(editContent, first + 4, Len(editContent))
     ELSE Sub(editContent, first + 4, second - 1)

\* A _processContent that emits every delta_content as it arrives, in tool
\* mode too.
EmitWhileBuffering(upstreamData, sentInitial, tools, buffered, modelName) ==
  [chunks |-> IF upstreamData.delta_content = <<>> THEN <<>>
              ELSE <<createOpenAIResponseChunk(modelName, "content",
                                               upstreamData.delta_content, "none")>>,
   bufferedContent |-> buffered \o upstreamData.delta_content]

\* _processContent: the lines it yields and this.bufferedContent after it.
\* Its sentInitialAnswer is a parameter (sentInitial): the assignment inside does not
\* reach the caller's variable.
_processContent(upstreamData, sentInitial, tools, buffered, modelName) ==
  LET content == IF upstreamData.delta_content # <<>> THEN upstreamData.delta_content
                 ELSE upstreamData.edit_content
      processedContent == IF upstreamData.phase = "thinking"
                            THEN transformThinkingContent(content) ELSE content
      extractedContent == _extractEditContent(upstreamData.edit_content)
      initial == IF /\ ~sentInitial
                    /\ upstreamData.edit_content # <<>>
                    /\ upstreamData.phase = "answer"
                    /\ extractedContent # <<>>
                   THEN <<createOpenAIResponseChunk(modelName, "content", extractedContent, "none")>>
                   ELSE <<>>
      delta == IF upstreamData.delta_content # <<>> /\ processedContent # <<>>
                 THEN IF upstreamData.phase = "thinking"
                        THEN <<createOpenAIResponseChunk(modelName, "reasoning_content", processedContent, "none")>>
                        ELSE <<createOpenAIResponseChunk(modelName, "content", processedContent, "none")>>
                 ELSE <<>>
  IN IF content = <<>> THEN [chunks |-> <<>>, bufferedContent |-> buffered]
     ELSE IF tools THEN [chunks |-> <<>>, bufferedContent |-> buffered \o processedContent]
     ELSE [chunks |-> initial \o delta, bufferedContent |-> buffered]

\* A terminal sequence that lacks the [DONE] line.
TerminalSequenceWithoutDone(modelName, finishReason) ==
  << createOpenAIResponseChunk(modelName, "none", <<>>, finishReason) >>

\* A terminal sequence whose final chunk carries content as well.
TerminalWithContent(modelName, finishReason) ==
  << createOpenAIResponseChunk(modelName, "content", <<"world">>, finishReason), DoneLine >>

\* The two lines that close a response: the finish_reason chunk and [DONE].
TerminalSequence(modelName, finishReason) ==
  << createOpenAIResponseChunk(modelName, "none", <<>>, finishReason), DoneLine >>

\* The body of _sendEndChunk, given what extractToolInvocations (found) and
\* removeToolJsonContent (trimmedContent) make of the buffered content.
EndChunksOf(ended, tools, calls, modelName, found, trimmedContent) ==
     IF ended
       THEN [chunks |-> <<>>, threw |-> FALSE, streamEnded |-> ended, toolCalls |-> calls]
     ELSE IF ~tools
       THEN [chunks |-> TerminalSequence(modelName, "stop"), threw |-> FALSE,
             streamEnded |-> TRUE, toolCalls |-> calls]
     ELSE IF found.kind = "throw"
       THEN [chunks |-> <<>>, threw |-> TRUE, streamEnded |-> ended, toolCalls |-> calls]
     ELSE IF found.kind = "list"
       THEN [chunks |-> [i \in 1..Len(found.calls) |->
                           ToolCallChunk(modelName, i - 1, found.calls[i])]
                        \o TerminalSequence(modelName, "tool_calls"),
             threw |-> FALSE, streamEnded |-> TRUE, toolCalls |-> found]
     ELSE [chunks |-> (IF trimmedContent # <<>>
                         THEN <<createOpenAIResponseChunk(modelName, "content", trimmedContent, "none")>>
                         ELSE <<>>)
                      \o TerminalSequence(modelName, "stop"),
           threw |-> FALSE, streamEnded |-> TRUE, toolCalls |-> found]

\* _sendEndChunk: the lines it yields, whether it threw (before yielding
\* anything: extractToolInvocations is its first call), and this.streamEnded
\* and this.toolCalls after it.
_sendEndChunk(ended, tools, buffered, calls, modelName) ==
  EndChunksOf(ended, tools, calls, modelName,
              extractToolInvocations(buffered), removeToolJsonContent(buffered))

\* A handle() without the catch block: the exception leaves handle().
CatchNothing(ended, modelName) ==
  [chunks |-> <<>>, streamEnded |-> ended, propagated |-> TRUE]

\* The catch block of handle(): a synthetic terminal sequence unless the
\* stream has ended; the exception goes no further.
CatchStreamError(ended, modelName) ==
  IF ~ended
    THEN [chunks |-> TerminalSequence(modelName, "stop"), streamEnded |-> TRUE, propagated |-> FALSE]
    ELSE [chunks |-> <<>>, streamEnded |-> ended, propagated |-> FALSE]

\* A check for errors that leaves the loop and emits nothing.
SilentErrorStep(ended) == [chunks |-> <<>>, streamEnded |-> ended]

\* The check for errors at the top of the loop body.
ErrorFrameStep(ended) ==
  IF ~ended THEN [chunks |-> handleUpstreamError, streamEnded |-> TRUE]
  ELSE [chunks |-> <<>>, streamEnded |-> ended]

\* "Check if done": the condition under which _sendEndChunk runs and the
\* loop is left.
IsTerminalFrame(upstreamData) == upstreamData.done \/ upstreamData.phase = "done"

\* releaseLock() placed after the loop instead of in a finally block: it
\* runs only when read() reports done.
ReleaseAfterLoop(how, count) == IF how = "eof" THEN count + 1 ELSE count

\* The finally block of iterEvents: reader.releaseLock() on every exit of
\* the generator body (end of data, an exception from read(), and the
\* return() that a break or a throw in the consumer's loop sends).
ReleaseOnExit(how, count) == count + 1

\* ------------------------------------------------- inputs of the model

Q(w) == <<Quote, w, Quote>>

\* {"tool_calls":[ ... ]}
ToolCallsJson(items) == <<"{">> \o Q("tool_calls") \o <<":", "[">> \o items \o <<"]", "}">>
\* {"function":{"name":"f","arguments": ... }}
CallJson(args) ==
  <<"{">> \o Q("function") \o <<":", "{">> \o Q("name") \o <<":">> \o Q("f")
  \o <<",">> \o Q("arguments") \o <<":">> \o args \o <<"}", "}">>
\* {"type":"chat","data":{}}
ValidFrameJson ==
  <<"{">> \o Q("type") \o <<":">> \o Q("chat") \o <<",">> \o Q("data") \o <<":", "{", "}", "}">>
\* The natural-language call phrase: CALLFN: f arguments: {}
NaturalCall == <<"CALLFN", ":", " ", "f", " ", "arguments", ":", " ", "{", "}">>
\* <details><summary>x</summary>hi</details>
ThinkingMarkup ==
  <<"<", "details", ">">> \o TagSummaryOpen \o <<"x">> \o TagSummaryClose \o <<"hi">> \o TagDetailsClose

\* {"tool_calls":[{"function":{"arguments":"{\"x\":\"a}b\"}"}}]}
EscapedCall ==
  ToolCallsJson(<<"{">> \o Q("function") \o <<":", "{">> \o Q("arguments") \o <<":">>
                \o <<Quote, "{", Backslash, Quote, "x", Backslash, Quote, ":",
                      Backslash, Quote, "a", "}", "b", Backslash, Quote, "}", Quote>>
                \o <<"}", "}">>)

DeltaTexts ==
  { <<>>, <<"world">>, ThinkingMarkup, NaturalCall,
    ToolCallsJson(CallJson(<<"{", "}">>)), ToolCallsJson(<<>>) }

\* x</details>first
EditTexts == { <<>>, <<"x">> \o TagDetailsClose \o <<"first">> }

Phases == {"thinking", "answer", "done", "other"}

\* Which of error, data.error and data.inner.error a frame carries.
ErrorShapes ==
  { [error |-> FALSE, dataError |-> FALSE, innerError |-> FALSE],
    [error |-> TRUE, dataError |-> FALSE, innerError |-> FALSE],
    [error |-> FALSE, dataError |-> TRUE, innerError |-> FALSE],
    [error |-> FALSE, dataError |-> FALSE, innerError |-> TRUE] }

NoError == [error |-> FALSE, dataError |-> FALSE, innerError |-> FALSE]

Frame(p, d, e, dn, es) ==
  [phase |-> p, delta_content |-> d, edit_content |-> e, done |-> dn,
   error |-> es.error, dataError |-> es.dataError, innerError |-> es.innerError]

\* The frames that pass UpstreamDataSchema: every frame without an error,
\* and frames with an error (their content is never looked at).
Frames ==
  { Frame(p, d, e, dn, NoError) : p \in Phases, d \in DeltaTexts, e \in EditTexts, dn \in BOOLEAN }
  \cup { Frame("answer", <<"hi">>, <<>>, dn, es) : dn \in BOOLEAN, es \in ErrorShapes \ {NoError} }

\* What iterJsonData drops: a data event that is not JSON, a JSON frame that
\* fails the schema, and an event, id or retry event.
SkippedEvents == {"nonjson", "invalid", "other"}

\* The most events the upstream delivers in one response.
MaxEvents == 2

\* callUpstreamApi: it throws, answers with a status that is not 2xx, answers
\* 2xx with a body, or answers 2xx without one.
UpstreamOutcomes == {"throws", "status", "ok", "nobody"}

DisplayModes == {"think", "strip", "raw"}

\* ------------------------------------------------- StreamResponseHandler.handle

streamVars ==
  << hasTools, reqModel, upstream, pc, out, streamEnded, bufferedContent, toolCalls,
     sentInitialAnswer, readerLocked, releaseCount, nEvents, doneFrames, errorFrames,
     thrown, propagated, thinkingOnly >>

\* The variables of the decoder runs and of the extraction runs.
sseVars == << body, pos, sseBuffer, pendingLead, events, sseDone, chunks >>

toolVars == << responseText, nParts, toolPc, extracted, stripped >>

\* The variables of the runs of the thinking content transformer.
thinkVars == << thinkIn, nThinkParts, thinkPc, thinkOnce, thinkTwice >>

\* The variables of a non-streaming request.
fullVars == << fullTools, fullUpstream, fullPc, fullContent, nFullEvents, fullErrors, fullResult >>

\* The variables of the consumer of a streaming reply.
cancelVars == << cancelled, eventsAtCancel >>

\* The variables of the two concurrent requests.
pairVars == << pairTools, pairPc, pairOut, pairSeen, handlers, nPairEvents >>

\* The variables of the configuration module (config.ts).
configVars == << env, cfgPc, loaded >>

\* The variables of one run of _extractEditContent.
editVars == << editIn, nEditParts, editPc, editOut >>

\* The variables of model lookups of successive requests.
modelVars == << modelIds, resolved >>

\* The variables of the chat completions route.
routerVars == << skipAuthToken, apiToken, authorization, bodyValid, streamFlag, routerPc, status, tokenFetches, upstreamCalls >>

\* What the actions of one part of the model leave alone.
outsideStream ==
  << sseVars, toolVars, thinkVars, fullVars, cancelVars, pairVars, configVars, editVars,
     modelVars, routerVars >>
outsideSSE ==
  << THINKING_PROCESSING, streamVars, toolVars, thinkVars, fullVars, cancelVars, pairVars,
     configVars, editVars, modelVars, routerVars >>
outsideTools ==
  << THINKING_PROCESSING, streamVars, sseVars, thinkVars, fullVars, cancelVars, pairVars,
     configVars, editVars, modelVars, routerVars >>
outsideThink ==
  << streamVars, sseVars, toolVars, fullVars, cancelVars, pairVars, configVars, editVars,
     modelVars, routerVars >>
outsideFull ==
  << streamVars, sseVars, toolVars, thinkVars, cancelVars, pairVars, configVars, editVars,
     modelVars, routerVars >>
outsideCancel ==
  << sseVars, toolVars, thinkVars, fullVars, pairVars, configVars, editVars, modelVars,
     routerVars >>
outsidePair ==
  << streamVars, sseVars, toolVars, thinkVars, fullVars, cancelVars, configVars, editVars,
     modelVars, routerVars >>
outsideConfig ==
  << THINKING_PROCESSING, streamVars, sseVars, toolVars, thinkVars, fullVars, cancelVars,
     pairVars, editVars, modelVars, routerVars >>
outsideEdit ==
  << THINKING_PROCESSING, streamVars, sseVars, toolVars, thinkVars, fullVars, cancelVars,
     pairVars, configVars, modelVars, routerVars >>
outsideModel ==
  << THINKING_PROCESSING, streamVars, sseVars, toolVars, thinkVars, fullVars, cancelVars,
     pairVars, configVars, editVars, routerVars >>
outsideRouter == << THINKING_PROCESSING, streamVars, sseVars, toolVars, thinkVars, fullVars, cancelVars, pairVars, configVars, editVars, modelVars >>

StreamInit ==
  /\ THINKING_PROCESSING \in DisplayModes
  /\ hasTools \in BOOLEAN
  /\ reqModel \in {SUPPORTED_MODELS[i].upstreamId : i \in {1, 2}}
  /\ upstream \in UpstreamOutcomes
  /\ pc = "call"
  /\ out = <<>>
  /\ streamEnded = FALSE
  /\ bufferedContent = <<>>
  /\ toolCalls = ExtractNull
  /\ sentInitialAnswer = FALSE
  /\ readerLocked = FALSE
  /\ releaseCount = 0
  /\ nEvents = 0
  /\ doneFrames = 0
  /\ errorFrames = 0
  /\ thrown = 0
  /\ propagated = FALSE
  /\ thinkingOnly = TRUE

modelName == getModelConfig(reqModel).name

\* handle() up to the role chunk: the upstream call, the two early returns
\* and the first yield.
CallUpstream ==
  /\ pc = "call"
  /\ IF upstream \in {"throws", "status"}
       THEN /\ out' = Append(out, ErrorLine)
            /\ pc' = "done"
       ELSE /\ out' = Append(out, createOpenAIResponseChunk(modelName, "role", <<>>, "none"))
            /\ pc' = "role"
  /\ UNCHANGED << THINKING_PROCESSING, hasTools, reqModel, upstream, thinkingOnly, streamEnded,
                  bufferedContent, toolCalls, sentInitialAnswer, readerLocked,
                  releaseCount, nEvents, doneFrames, errorFrames, thrown, propagated >>
  /\ UNCHANGED outsideStream

\* A loop body that goes on to the next frame instead of breaking.
NoBreak == "stream"

\* A finally block that clears the latch.
FinallyResetsLatch(ended) == FALSE

\* A loop that goes on after the terminal sequence.
ContinueLoop == "stream"

\* break in the loop of handle(): the loop is left (the generators of the
\* decoder are returned) and handle() goes on to its finally block.
AfterBreak == "finally"

\* The finally block of handle(): this.streamEnded after it.
FinallyBlock(ended) == IF ~ended THEN TRUE ELSE ended

\* An exception in the try block of handle(): the catch block runs, then
\* the finally block is next. count is the number of releases of the
\* reader lock once the exception has left the decoder.
ThrowInLoop(chunksBefore, count) ==
  \E c \in {CatchStreamError(streamEnded, modelName)} :
    /\ out' = out \o chunksBefore \o c.chunks
    /\ streamEnded' = c.streamEnded
    /\ propagated' = c.propagated
    /\ thrown' = thrown + 1
    /\ releaseCount' = count
    /\ pc' = "finally"

\* The first next() of the decoder: iterEvents throws when the response has
\* no body, else takes the reader.
BeginStream ==
  /\ pc = "role"
  /\ IF upstream = "nobody"
       THEN /\ ThrowInLoop(<<>>, releaseCount)
            /\ UNCHANGED readerLocked
       ELSE /\ readerLocked' = TRUE
            /\ pc' = "stream"
            /\ UNCHANGED << out, streamEnded, propagated, thrown, releaseCount >>
  /\ UNCHANGED << THINKING_PROCESSING, hasTools, reqModel, upstream, thinkingOnly, bufferedContent,
                  toolCalls, sentInitialAnswer, nEvents, doneFrames, errorFrames >>
  /\ UNCHANGED outsideStream

\* An event that iterJsonData does not pass on.
SkipEvent(kind) ==
  /\ pc = "stream"
  /\ nEvents < MaxEvents
  /\ kind \in SkippedEvents
  /\ nEvents' = nEvents + 1
  /\ UNCHANGED << THINKING_PROCESSING, hasTools, reqModel, upstream, thinkingOnly, pc, out, streamEnded,
                  bufferedContent, toolCalls, sentInitialAnswer, readerLocked,
                  releaseCount, doneFrames, errorFrames, thrown, propagated >>
  /\ UNCHANGED outsideStream

\* The content that _processContent takes from the frame, if any, is the
\* text of a thinking frame.
FromThinking(upstreamData) ==
  (upstreamData.delta_content = <<>> /\ upstreamData.edit_content = <<>>)
  \/ upstreamData.phase = "thinking"

\* One pass of the loop body of handle() for a validated frame. processed
\* is what _processContent did, ended what _sendEndChunk does after it,
\* onError what the check for errors does. doneFrames counts the frames
\* with a terminal condition that reached the loop body, thinkingOnly
\* records where the content processed so far came from.
HandleFrame(upstreamData) ==
  /\ pc = "stream"
  /\ nEvents < MaxEvents
  /\ nEvents' = nEvents + 1
  /\ doneFrames' = IF IsTerminalFrame(upstreamData) THEN doneFrames + 1 ELSE doneFrames
  /\ \E processed \in {_processContent(upstreamData, sentInitialAnswer, hasTools,
                                       bufferedContent, modelName)} :
     \E ended \in {_sendEndChunk(streamEnded, hasTools, processed.bufferedContent,
                                 toolCalls, modelName)} :
     \E onError \in {ErrorFrameStep(streamEnded)} :
        IF _hasError(upstreamData)
          THEN \* yield* handleUpstreamError; break
               /\ out' = out \o onError.chunks
               /\ streamEnded' = onError.streamEnded
               /\ releaseCount' = ReleaseOnExit("return", releaseCount)
               /\ pc' = AfterBreak
               /\ errorFrames' = errorFrames + 1
               /\ UNCHANGED << bufferedContent, toolCalls, thrown, propagated >>
        ELSE IF IsTerminalFrame(upstreamData) /\ ~streamEnded
          THEN /\ bufferedContent' = processed.bufferedContent
               /\ toolCalls' = ended.toolCalls
               /\ UNCHANGED errorFrames
               /\ IF ended.threw
                    THEN ThrowInLoop(processed.chunks, ReleaseOnExit("return", releaseCount))
                    ELSE \* yield* _sendEndChunk; this.streamEnded = true; break
                         /\ out' = out \o processed.chunks \o ended.chunks
                         /\ streamEnded' = TRUE
                         /\ releaseCount' = ReleaseOnExit("return", releaseCount)
                         /\ pc' = AfterBreak
                         /\ UNCHANGED << thrown, propagated >>
        ELSE /\ out' = out \o processed.chunks
             /\ bufferedContent' = processed.bufferedContent
             /\ UNCHANGED << pc, streamEnded, toolCalls, releaseCount,
                             errorFrames, thrown, propagated >>
  /\ thinkingOnly' = (thinkingOnly /\ (_hasError(upstreamData) \/ FromThinking(upstreamData)))
  /\ UNCHANGED << THINKING_PROCESSING, hasTools, reqModel, upstream, sentInitialAnswer,
                  readerLocked >>
  /\ UNCHANGED outsideStream

\* read() reports done: the loops of the decoder and of handle() end, with
\* nothing yielded; the finally block of handle() is next.
EndOfData ==
  /\ pc = "stream"
  /\ releaseCount' = ReleaseOnExit("eof", releaseCount)
  /\ pc' = "finally"
  /\ UNCHANGED << THINKING_PROCESSING, hasTools, reqModel, upstream, thinkingOnly, out, streamEnded,
                  bufferedContent, toolCalls, sentInitialAnswer, readerLocked, nEvents,
                  doneFrames, errorFrames, thrown, propagated >>
  /\ UNCHANGED outsideStream

\* read() rejects: the exception leaves iterEvents and iterJsonData and is
\* caught in handle().
ReadError ==
  /\ pc = "stream"
  /\ ThrowInLoop(<<>>, ReleaseOnExit("throw", releaseCount))
  /\ UNCHANGED << THINKING_PROCESSING, hasTools, reqModel, upstream, thinkingOnly, bufferedContent,
                  toolCalls, sentInitialAnswer, readerLocked, nEvents, doneFrames,
                  errorFrames >>
  /\ UNCHANGED outsideStream

\* The finally block of handle(), after which the generator is finished.
Finally ==
  /\ pc = "finally"
  /\ streamEnded' = FinallyBlock(streamEnded)
  /\ pc' = "done"
  /\ UNCHANGED << THINKING_PROCESSING, hasTools, reqModel, upstream, thinkingOnly, out, bufferedContent,
                  toolCalls, sentInitialAnswer, readerLocked, releaseCount, nEvents,
                  doneFrames, errorFrames, thrown, propagated >>
  /\ UNCHANGED outsideStream

\* ------------------------------------------------- the consumer of handle()

\* The router pumps handle() from start() of a ReadableStream: a for await
\* loop that enqueues every line. The loop does not wait for the client.
\* cancel() of the stream only writes a log line; once the stream is
\* cancelled, controller.enqueue throws.

\* The frames of the responses that a client may cancel.
CancelFrames ==
  { Frame(p, d, <<>>, dn, NoError) :
      p \in {"thinking", "answer"},
      d \in {<<>>, <<"world">>, ToolCallsJson(CallJson(<<"{", "}">>))},
      dn \in BOOLEAN }
  \cup { Frame("answer", <<"hi">>, <<>>, FALSE, [error |-> TRUE, dataError |-> FALSE, innerError |-> FALSE]) }

\* The client goes away while handle() is running.
ClientCancel ==
  /\ ~cancelled
  /\ pc \in {"call", "role", "stream"}
  /\ cancelled' = TRUE
  /\ eventsAtCancel' = nEvents
  /\ UNCHANGED << THINKING_PROCESSING, streamVars >>
  /\ UNCHANGED outsideCancel

\* enqueue throws for the first of the lines that handle() yields: the for
\* await loop sends return() to handle(), which stops at that yield. Inside
\* the try statement its finally block runs (inTry). count is the number
\* of releases of the reader lock afterwards.
ReturnAtYield(lines, inTry, count) ==
  /\ out' = Append(out, lines[1])
  /\ streamEnded' = IF inTry THEN FinallyBlock(streamEnded) ELSE streamEnded
  /\ releaseCount' = count
  /\ pc' = "done"

\* After the cancellation: the upstream call ends and handle() yields the
\* error line or the role chunk.
CancelledCall ==
  /\ cancelled
  /\ pc = "call"
  /\ ReturnAtYield(IF upstream \in {"throws", "status"}
                     THEN <<ErrorLine>>
                     ELSE <<createOpenAIResponseChunk(modelName, "role", <<>>, "none")>>,
                   FALSE, releaseCount)
  /\ UNCHANGED << THINKING_PROCESSING, hasTools, reqModel, upstream, thinkingOnly,
                  bufferedContent, toolCalls, sentInitialAnswer, readerLocked,
                  nEvents, doneFrames, errorFrames, thrown, propagated >>
  /\ UNCHANGED outsideCancel
  /\ UNCHANGED cancelVars

\* After the cancellation: an exception in the loop (no body, or read()
\* rejects); the catch block yields its first line.
CancelledThrow ==
  /\ cancelled
  /\ \/ pc = "role" /\ upstream = "nobody"
     \/ pc = "stream"
  /\ ReturnAtYield(CatchStreamError(streamEnded, modelName).chunks, TRUE,
                   IF pc = "stream" THEN ReleaseOnExit("throw", releaseCount) ELSE releaseCount)
  /\ thrown' = thrown + 1
  /\ UNCHANGED << THINKING_PROCESSING, hasTools, reqModel, upstream, thinkingOnly,
                  bufferedContent, toolCalls, sentInitialAnswer, readerLocked,
                  nEvents, doneFrames, errorFrames, propagated >>
  /\ UNCHANGED outsideCancel
  /\ UNCHANGED cancelVars

\* The lines that the loop body yields for a frame, in order: those of
\* handleUpstreamError, or those of _processContent followed by those of
\* _sendEndChunk or of the catch block.
LinesOfFrame(upstreamData, processed, ended, onError, caught) ==
  IF _hasError(upstreamData) THEN onError.chunks
  ELSE IF IsTerminalFrame(upstreamData) /\ ~streamEnded
    THEN processed.chunks \o (IF ended.threw THEN caught.chunks ELSE ended.chunks)
  ELSE processed.chunks

\* After the cancellation: a frame for which the loop body yields a line.
\* What the body assigns before that yield is kept.
CancelledFrame(upstreamData) ==
  /\ cancelled
  /\ pc = "stream"
  /\ nEvents < MaxEvents
  /\ nEvents' = nEvents + 1
  /\ doneFrames' = IF IsTerminalFrame(upstreamData) THEN doneFrames + 1 ELSE doneFrames
  /\ errorFrames' = IF _hasError(upstreamData) THEN errorFrames + 1 ELSE errorFrames
  /\ thinkingOnly' = (thinkingOnly /\ (_hasError(upstreamData) \/ FromThinking(upstreamData)))
  /\ \E processed \in {_processContent(upstreamData, sentInitialAnswer, hasTools,
                                       bufferedContent, modelName)} :
     \E ended \in {_sendEndChunk(streamEnded, hasTools, processed.bufferedContent,
                                 toolCalls, modelName)} :
     \E lines \in {LinesOfFrame(upstreamData, processed, ended, ErrorFrameStep(streamEnded),
                                CatchStreamError(streamEnded, modelName))} :
        /\ lines # <<>>
        /\ ReturnAtYield(lines, TRUE, ReleaseOnExit("return", releaseCount))
        /\ bufferedContent' = IF _hasError(upstreamData) THEN bufferedContent
                              ELSE processed.bufferedContent
        /\ toolCalls' = IF ~_hasError(upstreamData) /\ processed.chunks = <<>>
                          THEN ended.toolCalls ELSE toolCalls
        /\ thrown' = IF ~_hasError(upstreamData) /\ processed.chunks = <<>> /\ ended.threw
                       THEN thrown + 1 ELSE thrown
  /\ UNCHANGED << THINKING_PROCESSING, hasTools, reqModel, upstream, sentInitialAnswer,
                  readerLocked, propagated >>
  /\ UNCHANGED outsideCancel
  /\ UNCHANGED cancelVars

\* ------------------------------------------------- two concurrent requests

\* The router builds one StreamResponseHandler for every request. The
\* handle() generators of two requests run interleaved: each await is a
\* point where the other may go on.

Requests == {1, 2}

\* One instance that serves every request.
SharedHandler(r) == 1

\* new StreamResponseHandler(...): the instance that serves request r.
HandlerOf(r) == r

\* The fields of a new instance.
FreshHandler == [streamEnded |-> FALSE, bufferedContent |-> <<>>, toolCalls |-> ExtractNull]

\* The model name of both requests.
PairModel == getModelConfig(PRIMARY_MODEL).name

\* One pass of the loop body of handle() on the instance h: the lines it
\* yields, the fields of the instance after it, and whether the loop is
\* left (over).
StepOf(upstreamData, h, processed, ended, onError, caught) ==
  IF _hasError(upstreamData)
    THEN [chunks |-> onError.chunks, streamEnded |-> onError.streamEnded,
          bufferedContent |-> h.bufferedContent, toolCalls |-> h.toolCalls, over |-> TRUE]
  ELSE IF IsTerminalFrame(upstreamData) /\ ~h.streamEnded
    THEN IF ended.threw
           THEN [chunks |-> processed.chunks \o caught.chunks, streamEnded |-> caught.streamEnded,
                 bufferedContent |-> processed.bufferedContent, toolCalls |-> ended.toolCalls,
                 over |-> TRUE]
           ELSE [chunks |-> processed.chunks \o ended.chunks, streamEnded |-> TRUE,
                 bufferedContent |-> processed.bufferedContent, toolCalls |-> ended.toolCalls,
                 over |-> TRUE]
  ELSE [chunks |-> processed.chunks, streamEnded |-> h.streamEnded,
        bufferedContent |-> processed.bufferedContent, toolCalls |-> h.toolCalls,
        over |-> FALSE]

AfterProcess(upstreamData, tools, h, processed) ==
  StepOf(upstreamData, h, processed,
         _sendEndChunk(h.streamEnded, tools, processed.bufferedContent, h.toolCalls, PairModel),
         ErrorFrameStep(h.streamEnded), CatchStreamError(h.streamEnded, PairModel))

LoopBody(upstreamData, tools, h) ==
  AfterProcess(upstreamData, tools, h,
               _processContent(upstreamData, FALSE, tools, h.bufferedContent, PairModel))

FieldsOf(step) ==
  [streamEnded |-> step.streamEnded, bufferedContent |-> step.bufferedContent,
   toolCalls |-> step.toolCalls]

\* The frames of the two requests.
PairFrames ==
  { Frame("answer", <<"world">>, <<>>, FALSE, NoError),
    Frame("answer", ToolCallsJson(CallJson(<<"{", "}">>)), <<>>, FALSE, NoError),
    Frame("answer", <<>>, <<>>, TRUE, NoError),
    Frame("answer", <<"hi">>, <<>>, FALSE, [error |-> TRUE, dataError |-> FALSE, innerError |-> FALSE]) }

\* The most frames the two upstreams deliver together.
MaxPairEvents == 3

PairInit ==
  /\ THINKING_PROCESSING = "think"
  /\ pairTools \in [Requests -> BOOLEAN]
  /\ pairPc = [r \in Requests |-> "call"]
  /\ pairOut = [r \in Requests |-> <<>>]
  /\ pairSeen = [r \in Requests |-> <<>>]
  /\ handlers = [h \in Requests |-> FreshHandler]
  /\ nPairEvents = 0

\* handle() of request r up to the role chunk, the upstream having
\* answered with a body.
PairStart(r) ==
  /\ pairPc[r] = "call"
  /\ pairOut' = [pairOut EXCEPT ![r] = <<createOpenAIResponseChunk(PairModel, "role", <<>>, "none")>>]
  /\ pairPc' = [pairPc EXCEPT ![r] = "stream"]
  /\ UNCHANGED << THINKING_PROCESSING, pairTools, pairSeen, handlers, nPairEvents >>
  /\ UNCHANGED outsidePair

\* The loop body of handle() of request r for one frame of its upstream.
PairFrame(r, upstreamData) ==
  /\ pairPc[r] = "stream"
  /\ nPairEvents < MaxPairEvents
  /\ nPairEvents' = nPairEvents + 1
  /\ pairSeen' = [pairSeen EXCEPT ![r] = Append(@, upstreamData)]
  /\ \E step \in {LoopBody(upstreamData, pairTools[r], handlers[HandlerOf(r)])} :
       /\ pairOut' = [pairOut EXCEPT ![r] = @ \o step.chunks]
       /\ handlers' = [handlers EXCEPT ![HandlerOf(r)] = FieldsOf(step)]
       /\ pairPc' = [pairPc EXCEPT ![r] = IF step.over THEN "finally" ELSE "stream"]
  /\ UNCHANGED << THINKING_PROCESSING, pairTools >>
  /\ UNCHANGED outsidePair

\* The upstream body of request r ends.
PairEndOfData(r) ==
  /\ pairPc[r] = "stream"
  /\ pairPc' = [pairPc EXCEPT ![r] = "finally"]
  /\ UNCHANGED << THINKING_PROCESSING, pairTools, pairOut, pairSeen, handlers, nPairEvents >>
  /\ UNCHANGED outsidePair

\* The finally block of handle() of request r.
PairFinally(r) ==
  /\ pairPc[r] = "finally"
  /\ handlers' = [handlers EXCEPT ![HandlerOf(r)].streamEnded = FinallyBlock(@)]
  /\ pairPc' = [pairPc EXCEPT ![r] = "done"]
  /\ UNCHANGED << THINKING_PROCESSING, pairTools, pairOut, pairSeen, nPairEvents >>
  /\ UNCHANGED outsidePair

\* ------------------------------------------------- NonStreamResponseHandler.handle

\* How handle() ended. kind is "none" while it runs, "completion" for the
\* chat.completion response (status 200), "error" for the 502 response and
\* "exception" when handle() rejects. contentIsNull tells message.content
\* null from a text.
Result(kind, contentIsNull, content, calls, finishReason) ==
  [kind |-> kind, contentIsNull |-> contentIsNull, content |-> content,
   tool_calls |-> calls, finish_reason |-> finishReason]

NoResult == Result("none", FALSE, <<>>, ExtractNull, "none")
ErrorResponse == Result("error", FALSE, <<>>, ExtractNull, "none")
RejectedResult == Result("exception", FALSE, <<>>, ExtractNull, "none")

\* What the loop body pushes to fullContent for one frame.
CollectContent(upstreamData) ==
  IF upstreamData.delta_content = <<>> THEN <<>>
  ELSE IF upstreamData.phase = "thinking"
    THEN transformThinkingContent(upstreamData.delta_content)
  ELSE upstreamData.delta_content

\* messageContent of the branch without tool calls: the stripped content,
\* the original content when stripping leaves nothing.
KeptContent(finalContent, strippedContent) ==
  IF strippedContent = <<>> THEN finalContent ELSE strippedContent

\* The response built from finalContent, given what extractToolInvocations
\* (found) and removeToolJsonContent (strippedContent) make of it.
ResponseOf(tools, finalContent, found, strippedContent) ==
  IF ~tools THEN Result("completion", FALSE, finalContent, ExtractNull, "stop")
  ELSE IF found.kind = "throw" THEN RejectedResult
  ELSE IF found.kind = "list" THEN Result("completion", TRUE, <<>>, found, "tool_calls")
  ELSE Result("completion", FALSE, KeptContent(finalContent, strippedContent), found, "stop")

\* "Handle tool calls for non-streaming" and "Build response".
BuildResponse(tools, finalContent) ==
  ResponseOf(tools, finalContent, extractToolInvocations(finalContent),
             removeToolJsonContent(finalContent))

\* The texts of the frames of a non-streaming response.
FullTexts ==
  { <<>>, <<"world">>, ThinkingMarkup, NaturalCall,
    ToolCallsJson(CallJson(<<"{", "}">>)), ToolCallsJson(<<>>) }

\* The frames that pass UpstreamDataSchema: frames without an error, and
\* frames with an error, which carry a delta_content as any frame does.
FullFrames ==
  { Frame(p, d, <<>>, dn, NoError) : p \in {"thinking", "answer", "done"}, d \in FullTexts,
                                      dn \in BOOLEAN }
  \cup { Frame("answer", <<"hi">>, <<>>, FALSE, es) : es \in ErrorShapes \ {NoError} }

\* The most events the upstream delivers in one non-streaming response.
MaxFullEvents == 2

FullInit ==
  /\ THINKING_PROCESSING \in DisplayModes
  /\ fullTools \in BOOLEAN
  /\ fullUpstream \in UpstreamOutcomes
  /\ fullPc = "call"
  /\ fullContent = <<>>
  /\ nFullEvents = 0
  /\ fullErrors = 0
  /\ fullResult = NoResult

\* handle() up to the loop: the upstream call and the two 502 responses.
FullCallUpstream ==
  /\ fullPc = "call"
  /\ IF fullUpstream \in {"throws", "status"}
       THEN fullResult' = ErrorResponse /\ fullPc' = "done"
       ELSE fullPc' = "collect" /\ UNCHANGED fullResult
  /\ UNCHANGED << THINKING_PROCESSING, fullTools, fullUpstream, fullContent, nFullEvents, fullErrors >>
  /\ UNCHANGED outsideFull

\* An event that iterJsonData does not pass on.
FullSkipEvent(kind) ==
  /\ fullPc = "collect"
  /\ fullUpstream = "ok"
  /\ nFullEvents < MaxFullEvents
  /\ kind \in SkippedEvents
  /\ nFullEvents' = nFullEvents + 1
  /\ UNCHANGED fullErrors
  /\ UNCHANGED << THINKING_PROCESSING, fullTools, fullUpstream, fullPc, fullContent, fullResult >>
  /\ UNCHANGED outsideFull

\* One pass of the collecting loop for a validated frame.
FullFrame(upstreamData) ==
  /\ fullPc = "collect"
  /\ fullUpstream = "ok"
  /\ nFullEvents < MaxFullEvents
  /\ nFullEvents' = nFullEvents + 1
  /\ fullErrors' = IF _hasError(upstreamData) THEN fullErrors + 1 ELSE fullErrors
  /\ fullContent' = fullContent \o CollectContent(upstreamData)
  /\ fullPc' = IF IsTerminalFrame(upstreamData) THEN "build" ELSE "collect"
  /\ UNCHANGED << THINKING_PROCESSING, fullTools, fullUpstream, fullResult >>
  /\ UNCHANGED outsideFull

\* read() reports done: the loop ends.
FullEndOfData ==
  /\ fullPc = "collect"
  /\ fullUpstream = "ok"
  /\ fullPc' = "build"
  /\ UNCHANGED << THINKING_PROCESSING, fullTools, fullUpstream, fullContent, nFullEvents, fullErrors,
                  fullResult >>
  /\ UNCHANGED outsideFull

\* An exception in the loop: read() rejects, or the response has no body.
\* The try statement has a finally block and no catch block.
FullReadError ==
  /\ fullPc = "collect"
  /\ fullResult' = RejectedResult
  /\ fullPc' = "done"
  /\ UNCHANGED << THINKING_PROCESSING, fullTools, fullUpstream, fullContent, nFullEvents, fullErrors >>
  /\ UNCHANGED outsideFull

\* The rest of handle() after the loop.
FullBuild ==
  /\ fullPc = "build"
  /\ fullResult' = BuildResponse(fullTools, fullContent)
  /\ fullPc' = "done"
  /\ UNCHANGED << THINKING_PROCESSING, fullTools, fullUpstream, fullContent, nFullEvents, fullErrors >>
  /\ UNCHANGED outsideFull

\* ------------------------------------------------- SSEParser.iterEvents

\* Bytes. An ASCII symbol is its own byte(s); "E1" is the lead byte and "E2"
\* the continuation byte of a two-byte UTF-8 character, which decodes to
\* the word Char2; Replacement is U+FFFD.
LeadByte == "E1"
ContByte == "E2"
Char2 == "CHAR2"
Replacement == "FFFD"

\* What the decoder makes of the byte at position i, pending telling
\* whether it holds a lead byte when it comes to that byte.
DecodedAt(bytes, i, pending) ==
  LET alone == IF bytes[i] = LeadByte THEN <<>>
               ELSE IF bytes[i] = ContByte THEN <<Replacement>>
               ELSE <<bytes[i]>>
  IN IF pending
       THEN IF bytes[i] = ContByte THEN <<Char2>> ELSE <<Replacement>> \o alone
       ELSE alone

\* TextDecoder.decode(value, {stream: true}) from byte i on: the decoder
\* holds a lead byte until its continuation arrives. [text, pendingLead]
DecodeFrom(bytes, i, pending, acc) ==
  [text |-> acc \o Flatten([k \in 1..(Len(bytes) - i + 1) |->
                              DecodedAt(bytes, i + k - 1,
                                        IF k = 1 THEN pending
                                        ELSE bytes[i + k - 2] = LeadByte)]),
   pendingLead |-> IF i > Len(bytes) THEN pending ELSE bytes[Len(bytes)] = LeadByte]

\* decoder.decode(value) without the stream option: nothing is carried
\* from one chunk to the next, a lead byte at the end of a chunk decodes
\* to U+FFFD.
DecodeWithoutStream(bytes, pending) ==
  LET d == DecodeFrom(bytes, 1, FALSE, <<>>) IN
    [text |-> IF d.pendingLead THEN Append(d.text, Replacement) ELSE d.text,
     pendingLead |-> FALSE]

\* decoder.decode(value, { stream: true })
DecodeChunk(bytes, pending) == DecodeFrom(bytes, 1, pending, <<>>)

RECURSIVE LastIndexOf(_, _, _)
LastIndexOf(s, c, i) ==
  IF i = 0 THEN 0 ELSE IF s[i] = c THEN i ELSE LastIndexOf(s, c, i - 1)

RECURSIVE SplitLines(_, _)
\* buffer.split('\n') without its last element: the complete lines of s up
\* to position last, the last newline of s.
SplitLines(s, last) ==
  IF last = 0 THEN <<>>
  ELSE LET nl == IndexFrom(s, "\n", 1) IN
    <<Sub(s, 1, nl - 1)>> \o SplitLines(Sub(s, nl + 1, Len(s)), last - nl)

\* parseInt(value, 10) of a trimmed value: its leading digits, NaN when it
\* has none. parseInt never throws.
parseInt(value) ==
  IF value # <<>> /\ value[1] \in NumWords THEN Sub(value, 1, NumEnd(value, 1))
  ELSE <<"NaN">>

SSEEvent(type, value, isJson, retry) ==
  [type |-> type, value |-> value, is_json |-> isJson, retry |-> retry]

\* The body of "for (const line of lines)": the events one line yields.
EventsOfLine(line) ==
  LET colonIndex == IndexFrom(line, ":", 1)
      field == Trim(Sub(line, 1, colonIndex - 1))
      value == Trim(Sub(line, colonIndex + 1, Len(line)))
  IN IF Trim(line) = <<>> THEN <<>>
     ELSE IF line[1] = ":" THEN <<>>
     ELSE IF colonIndex = 0 THEN <<>>
     ELSE IF field = <<"data">> THEN <<SSEEvent("data", value, JSONParse(value).ok, <<>>)>>
     ELSE IF field = <<"event">> THEN <<SSEEvent("event", value, FALSE, <<>>)>>
     ELSE IF field = <<"id">> THEN <<SSEEvent("id", value, FALSE, <<>>)>>
     ELSE IF field = <<"retry">> THEN <<SSEEvent("retry", <<>>, FALSE, parseInt(value))>>
     ELSE <<>>

RECURSIVE EventsOfLines(_, _)
EventsOfLines(lines, i) ==
  IF i > Len(lines) THEN <<>> ELSE EventsOfLine(lines[i]) \o EventsOfLines(lines, i + 1)

\* One pass of the while loop of iterEvents for a chunk that read() returned:
\* the events yielded, and buffer and the decoder's held byte after it.
ReadStep(buffer, pending, chunk) ==
  LET decoded == DecodeChunk(chunk, pending)
      joined == buffer \o decoded.text
      last == LastIndexOf(joined, "\n", Len(joined))
  IN [events |-> EventsOfLines(SplitLines(joined, last), 1),
      buffer |-> Sub(joined, last + 1, Len(joined)),
      pendingLead |-> decoded.pendingLead]

\* A member that the schema declares as an optional or defaulted value of
\* one type: absent, or of that type.
OptionalOf(v, key, type) ==
  GetProp(v, key).t \in {"undefined", type}

\* UpstreamDataSchema.parse(data) does not throw: data is an object with a
\* string type and an object data whose members have their declared types.
UpstreamDataSchema(data) ==
  /\ data.t = "obj"
  /\ GetProp(data, <<"type">>).t = "str"
  /\ GetProp(data, <<"data">>).t = "obj"
  /\ OptionalOf(GetProp(data, <<"data">>), <<"delta_content">>, "str")
  /\ OptionalOf(GetProp(data, <<"data">>), <<"edit_content">>, "str")
  /\ OptionalOf(GetProp(data, <<"data">>), <<"phase">>, "str")
  /\ OptionalOf(GetProp(data, <<"data">>), <<"done">>, "bool")

\* A filter that passes every data event on, validated or not.
PassAllData(event) == event.type = "data"

\* The condition under which iterJsonData yields an event of iterEvents.
PassedOn(event) ==
  /\ event.type = "data"
  /\ event.is_json # FALSE
  /\ UpstreamDataSchema(JSONParse(event.value).v)

\* iterJsonData(validator): the events of iterEvents that it yields.
iterJsonData(evs) == SelectSeq(evs, PassedOn)

\* The parts a body is made of: single bytes and whole lines.
ByteParts ==
  { <<"data">>, <<":">>, <<"\n">>, <<" ">>, <<"1">>, <<LeadByte>>, <<ContByte>>,
    <<"data", ":", " ", "{", "}", "\n">>,
    <<"data", ":", LeadByte, ContByte, "\n">>,
    <<"retry", ":", "x", "\n">>,
    <<"id", ":", " ", "x", " ", "\n">>,
    <<":", "x", "\n">> }

\* The most parts in one body.
MaxBodyParts == 2

Bodies == {Flatten(ps) : ps \in UNION {[1..n -> ByteParts] : n \in 0..MaxBodyParts}}

SSEInit ==
  /\ body \in Bodies
  /\ pos = 0
  /\ sseBuffer = <<>>
  /\ pendingLead = FALSE
  /\ events = <<>>
  /\ sseDone = FALSE
  /\ chunks = 0

\* read() returns the next n bytes of the body.
ReadChunk(n) ==
  /\ ~sseDone
  /\ n \in 1..(Len(body) - pos)
  /\ LET r == ReadStep(sseBuffer, pendingLead, Sub(body, pos + 1, pos + n)) IN
       /\ events' = events \o r.events
       /\ sseBuffer' = r.buffer
       /\ pendingLead' = r.pendingLead
  /\ pos' = pos + n
  /\ chunks' = chunks + 1
  /\ UNCHANGED << body, sseDone >>
  /\ UNCHANGED outsideSSE

\* An end of the loop that treats what is left in buffer as a last line.
FlushAtDone ==
  /\ ~sseDone
  /\ pos = Len(body)
  /\ sseDone' = TRUE
  /\ events' = events \o EventsOfLine(sseBuffer)
  /\ sseBuffer' = <<>>
  /\ UNCHANGED << body, pos, pendingLead, chunks >>
  /\ UNCHANGED outsideSSE

\* read() reports done: the loop ends; what is left in buffer is dropped.
ReadDone ==
  /\ ~sseDone
  /\ pos = Len(body)
  /\ sseDone' = TRUE
  /\ UNCHANGED << body, pos, sseBuffer, pendingLead, events, chunks >>
  /\ UNCHANGED outsideSSE

\* ------------------------------------------------- config.ts

\* Deno.env.get(key) of a variable that is not set.
Unset == [set |-> FALSE, value |-> <<>>]
EnvValue(v) == [set |-> TRUE, value |-> v]

\* getEnvVar: Deno.env.get(key) ?? defaultValue. An empty value is a value.
getEnvVar(environment, key, defaultValue) ==
  IF environment[key].set THEN environment[key].value ELSE defaultValue

RECURSIVE DecimalValue(_, _)
\* The number that a run of digits denotes.
DecimalValue(digits, acc) ==
  IF digits = <<>> THEN acc
  ELSE DecimalValue(Tail(digits), 10 * acc + (IF Head(digits) = "1" THEN 1 ELSE 0))

\* getEnvNumber: parseInt(value, 10), the default when the variable is not
\* set or the result is NaN.
getEnvNumber(environment, key, defaultValue) ==
  IF ~environment[key].set THEN defaultValue
  ELSE IF parseInt(environment[key].value) = <<"NaN">> THEN defaultValue
  ELSE DecimalValue(parseInt(environment[key].value), 0)

\* The keys of the environment that the model follows.
EnvKeys == {"PRIMARY_MODEL", "THINKING_MODEL", "SEARCH_MODEL", "AIR_MODEL", "LISTEN_PORT"}

\* A default of config.ts that the streaming model does not use by name.
DefaultOf(key) ==
  CASE key = "PRIMARY_MODEL" -> <<PRIMARY_MODEL>>
    [] key = "THINKING_MODEL" -> <<"GLM-4.6-Thinking">>
    [] key = "SEARCH_MODEL" -> <<"GLM-4.6-Search">>
    [] key = "AIR_MODEL" -> <<"GLM-4.5-Air">>

\* export const config: the fields the model follows.
LoadedConfig(environment) ==
  [PRIMARY_MODEL |-> getEnvVar(environment, "PRIMARY_MODEL", DefaultOf("PRIMARY_MODEL")),
   THINKING_MODEL |-> getEnvVar(environment, "THINKING_MODEL", DefaultOf("THINKING_MODEL")),
   SEARCH_MODEL |-> getEnvVar(environment, "SEARCH_MODEL", DefaultOf("SEARCH_MODEL")),
   AIR_MODEL |-> getEnvVar(environment, "AIR_MODEL", DefaultOf("AIR_MODEL")),
   LISTEN_PORT |-> getEnvNumber(environment, "LISTEN_PORT", 8080)]

\* What a variable of the environment may hold: nothing, the empty string,
\* a name, digits.
EnvValues == {Unset, EnvValue(<<>>), EnvValue(<<"my-model">>), EnvValue(<<"1", "0">>)}

ConfigInit ==
  /\ THINKING_PROCESSING = "think"
  /\ env \in [EnvKeys -> EnvValues]
  /\ cfgPc = "start"
  /\ loaded = <<>>

\* The module is evaluated: config is built from the environment.
LoadConfig ==
  /\ cfgPc = "start"
  /\ loaded' = LoadedConfig(env)
  /\ cfgPc' = "loaded"
  /\ UNCHANGED env
  /\ UNCHANGED outsideConfig

\* ------------------------------------------------- getModelConfig runs

\* The model identifiers a request may name: the ids and upstream ids of
\* SUPPORTED_MODELS, aliases that normalizeModelId knows, and unknown names.
ModelIds ==
  {SUPPORTED_MODELS[i].id : i \in 1..Len(SUPPORTED_MODELS)}
  \cup {SUPPORTED_MODELS[i].upstreamId : i \in 1..Len(SUPPORTED_MODELS)}
  \cup {"glm-4.6", "glm4.6", "glm_4.5", "gpt-4", "gpt-4-vision-preview", "unknown-model",
        "glm-4.5-air"}

\* The most requests in one run.
MaxRequests == 2

ModelInit ==
  /\ THINKING_PROCESSING = "think"
  /\ modelIds = <<>>
  /\ resolved = <<>>

\* A request names a model: getModelConfig(request.model).
ResolveModel(modelId) ==
  /\ Len(modelIds) < MaxRequests
  /\ modelIds' = Append(modelIds, modelId)
  /\ resolved' = Append(resolved, getModelConfig(modelId))
  /\ UNCHANGED outsideModel

\* ------------------------------------------------- POST /chat/completions

\* ctx.request.headers.get('authorization'): null, or the header's value.
NoHeader == [set |-> FALSE, value |-> <<>>]
Header(v) == [set |-> TRUE, value |-> v]

\* authorization.startsWith('Bearer ')
StartsWithBearer(v) == Len(v) >= 2 /\ v[1] = "Bearer" /\ v[2] = " "

\* authorization.substring(7)
KeyOf(v) == Sub(v, 3, Len(v))

\* A check that looks at the scheme of the header only.
SchemeOnly(skip, header, token) ==
  IF skip THEN "pass"
  ELSE IF ~header.set \/ ~StartsWithBearer(header.value) THEN "missing"
  ELSE "pass"

\* "Validate API key": which of the two 401 responses is sent, if any.
ValidateApiKey(skip, header, token) ==
  IF skip THEN "pass"
  ELSE IF ~header.set \/ header.value = <<>> \/ ~StartsWithBearer(header.value) THEN "missing"
  ELSE IF KeyOf(header.value) # token THEN "invalid"
  ELSE "pass"

\* The Authorization headers of the requests.
Headers ==
  { NoHeader, Header(<<>>), Header(<<"Bearer">>), Header(<<"Bearer", " ", "key">>),
    Header(<<"Bearer", " ", "wrong">>), Header(<<"Bearer", " ", " ", "key">>),
    Header(<<"bearer", " ", "key">>), Header(<<"Basic", " ", "key">>), Header(<<"key">>),
    Header(<<"Bearer", "key">>) }

RouterInit ==
  /\ THINKING_PROCESSING = "think"
  /\ skipAuthToken \in BOOLEAN
  /\ apiToken \in {<<"key">>, <<"other">>}
  /\ authorization \in Headers
  /\ bodyValid \in BOOLEAN
  /\ streamFlag \in BOOLEAN
  /\ routerPc = "auth"
  /\ status = 0
  /\ tokenFetches = 0
  /\ upstreamCalls = 0

\* The authorization check at the top of the route: a 401 response and
\* return, or on to the request body.
CheckAuthorization ==
  /\ routerPc = "auth"
  /\ IF ValidateApiKey(skipAuthToken, authorization, apiToken) = "pass"
       THEN routerPc' = "parse" /\ UNCHANGED status
       ELSE routerPc' = "done" /\ status' = 401
  /\ UNCHANGED << skipAuthToken, apiToken, authorization, bodyValid, streamFlag,
                  tokenFetches, upstreamCalls >>
  /\ UNCHANGED outsideRouter

\* OpenAIRequestSchema.parse(requestBody): a body that fails throws to
\* the outer catch, which answers 500.
ParseRequest ==
  /\ routerPc = "parse"
  /\ IF bodyValid
       THEN routerPc' = "token" /\ UNCHANGED status
       ELSE routerPc' = "done" /\ status' = 500
  /\ UNCHANGED << skipAuthToken, apiToken, authorization, bodyValid, streamFlag,
                  tokenFetches, upstreamCalls >>
  /\ UNCHANGED outsideRouter

\* const authToken = await getAuthToken()
FetchToken ==
  /\ routerPc = "token"
  /\ tokenFetches' = tokenFetches + 1
  /\ routerPc' = "handle"
  /\ UNCHANGED << skipAuthToken, apiToken, authorization, bodyValid, streamFlag, status,
                  upstreamCalls >>
  /\ UNCHANGED outsideRouter

\* The handler for the stream flag runs and calls the upstream: a stream
\* body (status 200), or the status of the non-streaming response, 500
\* when that handler throws.
RunHandler(answer) ==
  /\ routerPc = "handle"
  /\ answer \in (IF streamFlag THEN {200} ELSE {200, 502, 500})
  /\ upstreamCalls' = upstreamCalls + 1
  /\ status' = answer
  /\ routerPc' = "done"
  /\ UNCHANGED << skipAuthToken, apiToken, authorization, bodyValid, streamFlag,
                  tokenFetches >>
  /\ UNCHANGED outsideRouter

\* ------------------------------------------------- _extractEditContent runs

\* The pieces an edit_content is made of.
EditParts == { <<"a">>, <<"b">>, <<" ">>, TagDetailsClose }

\* The most pieces in one edit_content.
MaxEditParts == 3

EditInit ==
  /\ THINKING_PROCESSING = "think"
  /\ editIn = <<>>
  /\ nEditParts = 0
  /\ editPc = "build"
  /\ editOut = <<>>

AppendEditPart(p) ==
  /\ editPc = "build"
  /\ nEditParts < MaxEditParts
  /\ editIn' = editIn \o p
  /\ nEditParts' = nEditParts + 1
  /\ UNCHANGED << editPc, editOut >>
  /\ UNCHANGED outsideEdit

\* _extractEditContent(editContent)
ExtractEdit ==
  /\ editPc = "build"
  /\ editOut' = _extractEditContent(editIn)
  /\ editPc' = "extracted"
  /\ UNCHANGED << editIn, nEditParts >>
  /\ UNCHANGED outsideEdit

\* ------------------------------------------------- tool extraction runs

\* Plain words before a call, long enough for a call that follows them to
\* cross the scan limit.
Preamble == [i \in 1..14 |-> IF i % 2 = 1 THEN "hi" ELSE " "]

\* The pieces a response text is made of.
TextParts ==
  { <<"hi">>, <<" ">>, <<"{">>, <<"}">>,
    <<Fence, "json", "\n">>, <<"\n", Fence>>,
    <<Fence, "json", "\n">> \o ToolCallsJson(CallJson(<<"1">>)) \o <<"\n", Fence>>,
    NaturalCall,
    ToolCallsJson(<<>>),
    ToolCallsJson(<<"1">>),
    ToolCallsJson(<<"null">>),
    <<"{">> \o Q("tool_calls") \o <<":", "1", "}">>,
    ToolCallsJson(CallJson(<<"0">>)),
    ToolCallsJson(CallJson(<<"1">>)),
    ToolCallsJson(CallJson(<<"false">>)),
    ToolCallsJson(CallJson(<<"null">>)),
    ToolCallsJson(CallJson(Q("s"))),
    ToolCallsJson(CallJson(<<"{">> \o Q("a") \o <<":", "1", "}">>)),
    EscapedCall,
    Preamble }

\* The most pieces in one text.
MaxParts == 2

ToolsInit ==
  /\ responseText = <<>>
  /\ nParts = 0
  /\ toolPc = "build"
  /\ extracted = ExtractNull
  /\ stripped = <<>>

\* The upstream model writes one more piece of its response.
AppendPart(p) ==
  /\ toolPc = "build"
  /\ nParts < MaxParts
  /\ responseText' = responseText \o p
  /\ nParts' = nParts + 1
  /\ UNCHANGED << toolPc, extracted, stripped >>
  /\ UNCHANGED outsideTools

\* extractToolInvocations(text)
Extract ==
  /\ toolPc = "build"
  /\ extracted' = extractToolInvocations(responseText)
  /\ toolPc' = "extracted"
  /\ UNCHANGED << responseText, nParts, stripped >>
  /\ UNCHANGED outsideTools

\* removeToolJsonContent(text)
Strip ==
  /\ toolPc = "extracted"
  /\ stripped' = removeToolJsonContent(responseText)
  /\ toolPc' = "stripped"
  /\ UNCHANGED << responseText, nParts, extracted >>
  /\ UNCHANGED outsideTools

\* ------------------------------------------------- specifications

vars ==
  << THINKING_PROCESSING, streamVars, sseVars, toolVars, thinkVars, fullVars, cancelVars,
     pairVars, configVars, editVars, modelVars, routerVars >>

\* The variables of a part of the model that a specification does not run.
StreamIdle ==
  /\ hasTools = FALSE /\ reqModel = "" /\ upstream = "" /\ pc = "idle" /\ out = <<>>
  /\ streamEnded = FALSE /\ bufferedContent = <<>> /\ toolCalls = ExtractNull
  /\ sentInitialAnswer = FALSE /\ readerLocked = FALSE /\ releaseCount = 0
  /\ nEvents = 0 /\ doneFrames = 0 /\ errorFrames = 0 /\ thrown = 0 /\ propagated = FALSE
  /\ thinkingOnly = TRUE
SSEIdle ==
  /\ body = <<>> /\ pos = 0 /\ sseBuffer = <<>> /\ pendingLead = FALSE
  /\ events = <<>> /\ sseDone = TRUE /\ chunks = 0
ToolsIdle ==
  /\ responseText = <<>> /\ nParts = 0 /\ toolPc = "idle" /\ extracted = ExtractNull /\ stripped = <<>>
ThinkIdle ==
  /\ thinkIn = <<>> /\ nThinkParts = 0 /\ thinkPc = "idle" /\ thinkOnce = <<>> /\ thinkTwice = <<>>
FullIdle ==
  /\ fullTools = FALSE /\ fullUpstream = "" /\ fullPc = "idle" /\ fullContent = <<>>
  /\ nFullEvents = 0 /\ fullErrors = 0 /\ fullResult = NoResult
CancelIdle == cancelled = FALSE /\ eventsAtCancel = 0
PairIdle ==
  /\ pairTools = <<>> /\ pairPc = <<>> /\ pairOut = <<>> /\ pairSeen = <<>>
  /\ handlers = <<>> /\ nPairEvents = 0
ConfigIdle == env = <<>> /\ cfgPc = "idle" /\ loaded = <<>>
EditIdle == editIn = <<>> /\ nEditParts = 0 /\ editPc = "idle" /\ editOut = <<>>
ModelIdle == modelIds = <<>> /\ resolved = <<>>
RouterIdle ==
  /\ skipAuthToken = FALSE /\ apiToken = <<>> /\ authorization = NoHeader
  /\ bodyValid = FALSE /\ streamFlag = FALSE /\ routerPc = "idle" /\ status = 0
  /\ tokenFetches = 0 /\ upstreamCalls = 0

\* One streaming request, from the upstream call to the end of handle().
StreamSpecInit ==
  StreamInit /\ SSEIdle /\ ToolsIdle /\ ThinkIdle /\ FullIdle /\ CancelIdle /\ PairIdle
  /\ ConfigIdle /\ EditIdle /\ ModelIdle /\ RouterIdle

StreamNext ==
  \/ CallUpstream
  \/ BeginStream
  \/ \E kind \in SkippedEvents : SkipEvent(kind)
  \/ \E upstreamData \in Frames : HandleFrame(upstreamData)
  \/ EndOfData
  \/ ReadError
  \/ Finally

StreamSpec == StreamSpecInit /\ [][StreamNext]_vars

\* The decoder reading one body in chunks.
SSESpecInit ==
  SSEInit /\ THINKING_PROCESSING = "think" /\ StreamIdle /\ ToolsIdle /\ ThinkIdle
  /\ FullIdle /\ CancelIdle /\ PairIdle /\ ConfigIdle /\ EditIdle /\ ModelIdle /\ RouterIdle

SSENext ==
  \/ \E n \in 1..Len(body) : ReadChunk(n)
  \/ ReadDone

SSESpec == SSESpecInit /\ [][SSENext]_vars

\* The extractor and the stripper on one text.
ToolsSpecInit ==
  ToolsInit /\ THINKING_PROCESSING = "think" /\ StreamIdle /\ SSEIdle /\ ThinkIdle
  /\ FullIdle /\ CancelIdle /\ PairIdle /\ ConfigIdle /\ EditIdle /\ ModelIdle /\ RouterIdle

ToolsNext ==
  \/ \E p \in TextParts : AppendPart(p)
  \/ Extract
  \/ Strip

ToolsSpec == ToolsSpecInit /\ [][ToolsNext]_vars

\* The pieces a thinking content is made of.
ThinkParts ==
  { <<"x">>, <<" ">>, <<">", " ">>, <<"\n">>,
    <<"<", "details", ">">>, TagDetailsClose,
    TagSummaryOpen, TagSummaryClose, TagFullOpen }

\* The most pieces in one thinking content.
MaxThinkParts == 3

ThinkInit ==
  /\ THINKING_PROCESSING \in DisplayModes
  /\ thinkIn = <<>>
  /\ nThinkParts = 0
  /\ thinkPc = "build"
  /\ thinkOnce = <<>>
  /\ thinkTwice = <<>>

\* The upstream model writes one more piece of its thinking.
AppendThinkPart(p) ==
  /\ thinkPc = "build"
  /\ nThinkParts < MaxThinkParts
  /\ thinkIn' = thinkIn \o p
  /\ nThinkParts' = nThinkParts + 1
  /\ UNCHANGED << THINKING_PROCESSING, thinkPc, thinkOnce, thinkTwice >>
  /\ UNCHANGED outsideThink

\* transformThinkingContent(content)
TransformOnce ==
  /\ thinkPc = "build"
  /\ thinkOnce' = transformThinkingContent(thinkIn)
  /\ thinkPc' = "once"
  /\ UNCHANGED << THINKING_PROCESSING, thinkIn, nThinkParts, thinkTwice >>
  /\ UNCHANGED outsideThink

\* transformThinkingContent applied to its own result
TransformTwice ==
  /\ thinkPc = "once"
  /\ thinkTwice' = transformThinkingContent(thinkOnce)
  /\ thinkPc' = "twice"
  /\ UNCHANGED << THINKING_PROCESSING, thinkIn, nThinkParts, thinkOnce >>
  /\ UNCHANGED outsideThink

\* The thinking content transformer on one content.
ThinkSpecInit ==
  ThinkInit /\ StreamIdle /\ SSEIdle /\ ToolsIdle /\ FullIdle /\ CancelIdle /\ PairIdle
  /\ ConfigIdle /\ EditIdle /\ ModelIdle /\ RouterIdle

ThinkNext ==
  \/ \E p \in ThinkParts : AppendThinkPart(p)
  \/ TransformOnce
  \/ TransformTwice

ThinkSpec == ThinkSpecInit /\ [][ThinkNext]_vars

\* One non-streaming request, from the upstream call to the end of handle().
FullSpecInit ==
  FullInit /\ StreamIdle /\ SSEIdle /\ ToolsIdle /\ ThinkIdle /\ CancelIdle /\ PairIdle
  /\ ConfigIdle /\ EditIdle /\ ModelIdle /\ RouterIdle

FullNext ==
  \/ FullCallUpstream
  \/ \E kind \in SkippedEvents : FullSkipEvent(kind)
  \/ \E upstreamData \in FullFrames : FullFrame(upstreamData)
  \/ FullEndOfData
  \/ FullReadError
  \/ FullBuild

FullSpec == FullSpecInit /\ [][FullNext]_vars

\* One request answered by either assembler: the streaming handler or the
\* non-streaming handler, as the router chooses by the request's stream flag.
AssemblerSpecInit == StreamSpecInit \/ FullSpecInit

AssemblerNext ==
  \/ CallUpstream
  \/ BeginStream
  \/ \E kind \in SkippedEvents : SkipEvent(kind)
  \/ \E upstreamData \in Frames : HandleFrame(upstreamData)
  \/ EndOfData
  \/ ReadError
  \/ Finally
  \/ FullCallUpstream
  \/ \E kind \in SkippedEvents : FullSkipEvent(kind)
  \/ \E upstreamData \in FullFrames : FullFrame(upstreamData)
  \/ FullEndOfData
  \/ FullReadError
  \/ FullBuild

AssemblerSpec == AssemblerSpecInit /\ [][AssemblerNext]_vars

\* The decoder on one body, or one request answered by either assembler.
PipelineSpecInit == SSESpecInit \/ AssemblerSpecInit

PipelineNext ==
  \/ \E n \in 1..Len(body) : ReadChunk(n)
  \/ ReadDone
  \/ CallUpstream
  \/ BeginStream
  \/ \E kind \in SkippedEvents : SkipEvent(kind)
  \/ \E upstreamData \in Frames : HandleFrame(upstreamData)
  \/ EndOfData
  \/ ReadError
  \/ Finally
  \/ FullCallUpstream
  \/ \E kind \in SkippedEvents : FullSkipEvent(kind)
  \/ \E upstreamData \in FullFrames : FullFrame(upstreamData)
  \/ FullEndOfData
  \/ FullReadError
  \/ FullBuild

PipelineSpec == PipelineSpecInit /\ [][PipelineNext]_vars

\* One streaming request whose client may cancel. Before the cancellation,
\* and after it as long as handle() yields nothing, handle() runs as in
\* StreamSpec. Every event of these responses is a frame that passes the
\* schema, so nEvents counts the frames that reached the loop body.
CancelSpecInit ==
  StreamInit /\ SSEIdle /\ ToolsIdle /\ ThinkIdle /\ FullIdle /\ CancelIdle /\ PairIdle
  /\ ConfigIdle /\ EditIdle /\ ModelIdle /\ RouterIdle

CancelNext ==
  \/ ~cancelled /\ CallUpstream
  \/ ~cancelled /\ BeginStream
  \/ ~cancelled /\ \E upstreamData \in CancelFrames : HandleFrame(upstreamData)
  \/ ~cancelled /\ ReadError
  \/ EndOfData
  \/ Finally
  \/ ClientCancel
  \/ cancelled /\ out' = out /\ BeginStream
  \/ cancelled /\ out' = out /\ \E upstreamData \in CancelFrames : HandleFrame(upstreamData)
  \/ CancelledCall
  \/ CancelledThrow
  \/ \E upstreamData \in CancelFrames : CancelledFrame(upstreamData)

CancelSpec == CancelSpecInit /\ [][CancelNext]_vars

\* Two streaming requests served at the same time.
PairSpecInit ==
  PairInit /\ StreamIdle /\ SSEIdle /\ ToolsIdle /\ ThinkIdle /\ FullIdle /\ CancelIdle
  /\ ConfigIdle /\ EditIdle /\ ModelIdle /\ RouterIdle

PairNext ==
  \/ \E r \in Requests : PairStart(r)
  \/ \E r \in Requests : \E upstreamData \in PairFrames : PairFrame(r, upstreamData)
  \/ \E r \in Requests : PairEndOfData(r)
  \/ \E r \in Requests : PairFinally(r)

PairSpec == PairSpecInit /\ [][PairNext]_vars

\* The evaluation of config.ts in some environment.
ConfigSpecInit ==
  ConfigInit /\ StreamIdle /\ SSEIdle /\ ToolsIdle /\ ThinkIdle /\ FullIdle /\ CancelIdle
  /\ PairIdle /\ EditIdle /\ ModelIdle /\ RouterIdle

ConfigNext == LoadConfig

ConfigSpec == ConfigSpecInit /\ [][ConfigNext]_vars

\* getModelConfig for the models that successive requests name.
ModelSpecInit ==
  ModelInit /\ StreamIdle /\ SSEIdle /\ ToolsIdle /\ ThinkIdle /\ FullIdle /\ CancelIdle
  /\ PairIdle /\ ConfigIdle /\ EditIdle /\ RouterIdle

ModelNext == \E modelId \in ModelIds : ResolveModel(modelId)

ModelSpec == ModelSpecInit /\ [][ModelNext]_vars

\* One request to the chat completions route.
RouterSpecInit ==
  RouterInit /\ StreamIdle /\ SSEIdle /\ ToolsIdle /\ ThinkIdle /\ FullIdle /\ CancelIdle
  /\ PairIdle /\ ConfigIdle /\ EditIdle /\ ModelIdle

RouterNext ==
  \/ CheckAuthorization
  \/ ParseRequest
  \/ FetchToken
  \/ \E answer \in {200, 502, 500} : RunHandler(answer)

RouterSpec == RouterSpecInit /\ [][RouterNext]_vars

\* _extractEditContent on the texts made of a few pieces.
EditSpecInit ==
  EditInit /\ StreamIdle /\ SSEIdle /\ ToolsIdle /\ ThinkIdle /\ FullIdle /\ CancelIdle
  /\ PairIdle /\ ConfigIdle /\ ModelIdle /\ RouterIdle

EditNext ==
  \/ \E p \in EditParts : AppendEditPart(p)
  \/ ExtractEdit

EditSpec == EditSpecInit /\ [][EditNext]_vars

\* ------------------------------------------------- properties

\* The number of lines of output o that satisfy P.
CountOf(o, P(_)) == Cardinality({i \in 1..Len(o) : P(o[i])})

\* o ends with a finish_reason chunk followed by [DONE].
EndsWithTerminal(o) ==
  /\ Len(o) >= 2
  /\ IsFinishChunk(o[Len(o) - 1])
  /\ IsDoneLine(o[Len(o)])

\* C1: when a frame with a terminal condition (done = true or phase "done")
\* has reached the loop of handle(), the output holds exactly one
\* finish_reason chunk and exactly one [DONE] line; at no time does it hold
\* more than one of either.
C1_ExactlyOneTerminalSequence ==
  /\ CountOf(out, IsFinishChunk) <= 1
  /\ CountOf(out, IsDoneLine) <= 1
  /\ doneFrames > 0 => (CountOf(out, IsFinishChunk) = 1 /\ CountOf(out, IsDoneLine) = 1)

\* A response that a done frame closed after another event.
C1_Witness ==
  /\ pc = "done" /\ doneFrames = 1 /\ errorFrames = 0 /\ thrown = 0 /\ nEvents > 1
  /\ CountOf(out, IsDoneLine) = 1

\* C2: once the role chunk has been sent, the finished output ends with a
\* finish_reason chunk followed by [DONE], whatever frames the upstream sent
\* and also when its bytes end with no done frame and no error frame.
C2_AlwaysTerminated ==
  (pc = "done" /\ out # <<>> /\ IsRoleChunk(out[1])) => EndsWithTerminal(out)

\* C3: after an exception in the loop of handle() the output ends with one
\* synthetic terminal sequence (a finish_reason "stop" chunk, then [DONE]),
\* it holds no other terminal line, handle() is finishing, and the exception
\* has not left handle().
C3_ExceptionEndsStream ==
  thrown > 0 =>
    /\ ~propagated
    /\ pc \in {"finally", "done"}
    /\ EndsWithTerminal(out)
    /\ out[Len(out) - 1] = createOpenAIResponseChunk(modelName, "none", <<>>, "stop")
    /\ CountOf(out, IsFinishChunk) = 1
    /\ CountOf(out, IsDoneLine) = 1

\* An exception thrown by the terminal emission for a done frame.
C3_Witness ==
  pc = "done" /\ thrown = 1 /\ hasTools /\ doneFrames = 1 /\ readerLocked

\* C4: when the upstream call throws or answers with a status that is not
\* 2xx, the finished output ends with the [DONE] line.
C4_FailedCallTerminated ==
  (pc = "done" /\ upstream \in {"throws", "status"}) =>
    (out # <<>> /\ IsDoneLine(out[Len(out)]))

\* C5: in every step taken while streamEnded is true, streamEnded stays true
\* and no finish_reason chunk and no [DONE] line is added to the output.
C5_StreamEndedLatch ==
  [][streamEnded =>
       /\ streamEnded'
       /\ CountOf(out', IsFinishChunk) = CountOf(out, IsFinishChunk)
       /\ CountOf(out', IsDoneLine) = CountOf(out, IsDoneLine)]_vars

\* handle() has run its finally block with the latch already set.
C5_Witness ==
  pc = "done" /\ streamEnded /\ EndsWithTerminal(out) /\ upstream = "ok"

\* C6: after a successful upstream reply the output starts with the role
\* chunk, holds it once, holds every content, reasoning and tool_calls
\* chunk before the finish_reason chunk, and holds nothing after [DONE];
\* before the upstream call nothing is emitted.
C6_OutputOrder ==
  /\ pc = "call" => out = <<>>
  /\ (upstream \in {"ok", "nobody"} /\ out # <<>>) =>
       /\ IsRoleChunk(out[1])
       /\ CountOf(out, IsRoleChunk) = 1
       /\ \A i, j \in 1..Len(out) :
            (IsPayloadChunk(out[i]) /\ IsFinishChunk(out[j])) => i < j
       /\ \A i \in 1..Len(out) : IsDoneLine(out[i]) => i = Len(out)

\* A finished response: role chunk, a payload chunk, the terminal sequence.
C6_Witness ==
  /\ pc = "done" /\ Len(out) >= 4
  /\ IsPayloadChunk(out[2])
  /\ IsDoneLine(out[Len(out)])

\* C7: after any sequence of reads, the events yielded, the buffered
\* incomplete line and the byte held by the decoder are those of reading
\* the same bytes as one chunk: the events do not depend on how the bytes
\* are split into chunks.
C7_ChunkingIndependent ==
  \E whole \in {ReadStep(<<>>, FALSE, Sub(body, 1, pos))} :
    /\ events = whole.events
    /\ sseBuffer = whole.buffer
    /\ pendingLead = whole.pendingLead

\* A body read one byte at a time, split inside its line and inside its
\* two-byte character.
C7_Witness ==
  /\ sseDone /\ chunks = Len(body) /\ chunks > 1
  /\ \E i \in 1..Len(events) : events[i].value = <<Char2>>

\* C8: the reader lock is released at most once, not while the decoder is
\* still read from, and exactly once when the loop of a handler that took
\* the reader has been left, by end of data, by a break or by an exception.
C8_ReleasedExactlyOnce ==
  /\ releaseCount <= 1
  /\ pc = "stream" => releaseCount = 0
  /\ (pc \in {"finally", "done"} /\ readerLocked) => releaseCount = 1

\* The loop was left by a break on an error frame.
C8_Witness ==
  pc = "done" /\ readerLocked /\ releaseCount = 1 /\ errorFrames = 1 /\ thrown = 0

\* function.arguments of an invocation.
ArgumentsOf(call) == GetProp(GetProp(call, <<"function">>), <<"arguments">>)

\* C9: every invocation in a list that extractToolInvocations returned,
\* whose function has an arguments member, has a string there.
C9_ArgumentsAreStrings ==
  (toolPc \in {"extracted", "stripped"} /\ extracted.kind = "list") =>
    \A i \in 1..Len(extracted.calls) :
      HasKey(GetProp(extracted.calls[i], <<"function">>), <<"arguments">>)
        => ArgumentsOf(extracted.calls[i]).t = "str"

\* C10: extractToolInvocations returns null or a list that is not empty; it
\* returns no empty list and does not throw.
C10_NullOrNonEmptyList ==
  toolPc \in {"extracted", "stripped"} =>
    \/ extracted.kind = "null"
    \/ extracted.kind = "list" /\ extracted.calls # <<>>

RECURSIVE FencedSpanFrom(_, _, _)
\* The whole match of the first fenced block from which attempt 1 of the
\* extraction returns: [ok, a, f].
FencedSpanFrom(s, blocks, k) ==
  IF k > Len(blocks) THEN [ok |-> FALSE, a |-> 0, f |-> 0]
  ELSE IF ToolCallsOfJson(Sub(s, blocks[k].b, blocks[k].e)).ok
    THEN [ok |-> TRUE, a |-> blocks[k].a, f |-> blocks[k].f]
  ELSE FencedSpanFrom(s, blocks, k + 1)

RECURSIVE InlineSpanFrom(_, _)
\* The balanced span from which attempt 2 of the extraction returns.
InlineSpanFrom(s, i) ==
  IF i > Len(s) THEN [ok |-> FALSE, a |-> 0, f |-> 0]
  ELSE IF s[i] = "{" /\ BalancedEnd(s, i) # 0
          /\ ToolCallsOfJson(Sub(s, i, BalancedEnd(s, i) - 1)).ok
    THEN [ok |-> TRUE, a |-> i, f |-> BalancedEnd(s, i) - 1]
  ELSE InlineSpanFrom(s, i + 1)

\* The span of the text that a successful extraction matched.
MatchedSpan(s) ==
  IF FencedSpanFrom(s, TOOL_CALL_FENCE_PATTERN(s), 1).ok
    THEN FencedSpanFrom(s, TOOL_CALL_FENCE_PATTERN(s), 1)
    ELSE InlineSpanFrom(s, 1)

\* The text without a span.
WithoutSpan(s, span) ==
  IF span.ok THEN Sub(s, 1, span.a - 1) \o Sub(s, span.f + 1, Len(s)) ELSE s

\* C11: stripping and extraction are complementary: when extraction
\* returned invocations, removeToolJsonContent returns the trimmed text
\* without the span extraction matched; when extraction returned null, it
\* returns the trimmed text unchanged.
C11_StripComplementsExtract ==
  toolPc = "stripped" =>
    /\ extracted.kind = "null" => stripped = Trim(responseText)
    /\ extracted.kind = "list" =>
         stripped = Trim(WithoutSpan(responseText, MatchedSpan(Sub(responseText, 1, SCAN_LIMIT))))

\* C12: transformThinkingContent is idempotent in every display mode:
\* applied to its own result it returns that result.
C12_TransformIdempotent ==
  thinkPc = "twice" => thinkTwice = thinkOnce

\* Extraction recovered invocations: it returned a list that holds some.
RecoveredInvocations(r) == r.tool_calls.kind = "list" /\ r.tool_calls.calls # <<>>

\* C13: in a non-streaming response with tool mode enabled, message.content
\* is null whenever extraction recovered invocations, finish_reason is
\* "tool_calls" exactly in that case, and tool_calls and a textual content
\* are never both present.
C13_ToolCallsExcludeContent ==
  (fullPc = "done" /\ fullTools /\ fullResult.kind = "completion") =>
    /\ RecoveredInvocations(fullResult) => fullResult.contentIsNull
    /\ (fullResult.finish_reason = "tool_calls") <=> RecoveredInvocations(fullResult)
    /\ ~(fullResult.tool_calls.kind = "list" /\ ~fullResult.contentIsNull)

\* C20: in the non-streaming path, when read() rejects while the upstream
\* body is being decoded, handle() still ends with a chat.completion
\* response and the exception does not leave handle().
C20_ReadFailureStillAnswers ==
  [][(FullReadError /\ fullUpstream = "ok" /\ nFullEvents > 0)
        => fullResult'.kind = "completion"]_vars

\* C14: in the streaming output, text that came from a thinking frame is
\* delivered in reasoning_content and never in content, with tool mode or
\* without: as long as all the content processed came from thinking
\* frames, the output holds no content chunk.
C14_ThinkingNeverInContent ==
  thinkingOnly => \A i \in 1..Len(out) : ~(out[i].kind = "chunk" /\ out[i].deltaKey = "content")

\* The lines of the terminal sequence that an error frame gets.
ErrorTerminal ==
  << createOpenAIResponseChunk(PRIMARY_MODEL, "none", <<>>, "stop"), DoneLine >>

\* C15: a frame that carries an error (error, data.error or
\* data.inner.error) makes the handler emit the "stop" chunk followed by
\* data: [DONE] and nothing else, and leave the loop, so that no later
\* frame is processed. errorFrames grows in the step that handles such a
\* frame.
C15_ErrorFrameEndsStream ==
  [][/\ errorFrames' # errorFrames =>
          /\ out' = out \o ErrorTerminal
          /\ bufferedContent' = bufferedContent
          /\ pc' = "finally"
     /\ errorFrames > 0 => (nEvents' = nEvents /\ out' = out)]_vars

\* An error frame was handled after a content chunk, and the stream is over.
C15_Witness ==
  /\ errorFrames = 1 /\ pc = "done" /\ nEvents = 2 /\ Len(out) = 4
  /\ out[2].deltaKey = "content"
  /\ IsFinishChunk(out[3]) /\ out[3].finish_reason = "stop" /\ IsDoneLine(out[4])

\* The two frames of the example and the lines expected for them.
ThinkingFrame == Frame("thinking", ThinkingMarkup, <<>>, FALSE, NoError)
WorldDoneFrame == Frame("answer", <<"world">>, <<>>, TRUE, NoError)
WorldFrame == Frame("answer", <<"world">>, <<>>, FALSE, NoError)
RoleOnly == << createOpenAIResponseChunk(modelName, "role", <<>>, "none") >>
AfterThinking ==
  RoleOnly \o << createOpenAIResponseChunk(modelName, "reasoning_content", <<"hi">>, "none") >>
AfterWorld ==
  AfterThinking \o << createOpenAIResponseChunk(modelName, "content", <<"world">>, "none"),
                      createOpenAIResponseChunk(modelName, "none", <<>>, "stop"),
                      DoneLine >>

\* C16: without tool mode the output keeps the order of the upstream frames
\* and the content of the frame that ends the response comes before the
\* terminal sequence: in strip mode, the thinking frame
\* <details><summary>x</summary>hi</details> followed by the answer frame
\* "world" with done = true gives, after the role chunk, reasoning "hi",
\* content "world", the "stop" chunk and data: [DONE].
C16_OrderOfExample ==
  [][(~hasTools /\ THINKING_PROCESSING = "strip") =>
       /\ (out = RoleOnly /\ HandleFrame(ThinkingFrame)) => out' = AfterThinking
       /\ (out = AfterThinking /\ HandleFrame(WorldDoneFrame)) => out' = AfterWorld]_vars

\* The example has run to its end.
C16_Witness ==
  ~hasTools /\ THINKING_PROCESSING = "strip" /\ pc = "done" /\ out = AfterWorld

\* C17: the brace-balanced scan counts no brace inside a quoted string and
\* does not toggle the string flag on an escaped quote: at every "{" of the
\* text where a well-formed JSON object starts, the scan ends exactly
\* after that object; and the object
\* {"tool_calls":[{"function":{"arguments":"{\"x\":\"a}b\"}"}}]} is
\* recovered whole, as one invocation.
C17_ScanMatchesObject ==
  /\ \A i \in 1..Len(responseText) :
       (responseText[i] = "{" /\ ParseValue(responseText, i).ok)
         => BalancedEnd(responseText, i) = ParseValue(responseText, i).n
  /\ (toolPc # "build" /\ responseText = EscapedCall)
       => (extracted.kind = "list" /\ Len(extracted.calls) = 1)

\* The object of the example was scanned, after another piece of text.
C17_Witness ==
  /\ toolPc = "extracted" /\ nParts = 2
  /\ Sub(responseText, Len(responseText) - Len(EscapedCall) + 1, Len(responseText)) = EscapedCall
  /\ extracted.kind = "list"

\* C18: when the client cancels the streaming response, no further
\* upstream frame is read or processed after the cancellation, and the
\* upstream reader is released exactly once.
C18_CancelStopsReading ==
  cancelled =>
    /\ nEvents = eventsAtCancel
    /\ (pc = "done" /\ readerLocked) => releaseCount = 1

RECURSIVE AloneFrom(_, _, _, _, _)
\* The lines that the loop of handle() yields for the frames from the i-th
\* on when the request is served alone, h being the fields of its handler.
AloneNext(frames, i, tools, step, acc) ==
  AloneFrom(frames, i + 1, tools, FieldsOf(step), acc \o step.chunks)

AloneFrom(frames, i, tools, h, acc) ==
  IF i > Len(frames) THEN acc
  ELSE AloneNext(frames, i, tools, LoopBody(frames[i], tools, h), acc)

\* The output of a request served alone.
Alone(tools, frames) ==
  <<createOpenAIResponseChunk(PairModel, "role", <<>>, "none")>>
  \o AloneFrom(frames, 1, tools, FreshHandler, <<>>)

\* C19: translation state belongs to one request: under every interleaving
\* of two concurrent requests, the lines emitted for a request are those
\* that its own upstream frames and its own tool flag give when it is
\* served alone.
C19_RequestsIsolated ==
  \A r \in Requests :
    pairPc[r] # "call" => pairOut[r] = Alone(pairTools[r], pairSeen[r])

\* Both requests are in their loops, the first has buffered content, the
\* second has emitted its terminal sequence after the first began.
C19_Witness ==
  /\ pairPc[1] = "stream" /\ pairTools[1] /\ handlers[1].bufferedContent # <<>>
  /\ pairPc[2] = "done" /\ ~pairTools[2] /\ Len(pairSeen[2]) = 2 /\ handlers[2].streamEnded

\* C21: with no override in the environment, the loaded configuration has
\* LISTEN_PORT 8080, PRIMARY_MODEL "GLM-4.5", THINKING_MODEL
\* "GLM-4.5-Thinking", SEARCH_MODEL "GLM-4.5-Search" and AIR_MODEL
\* "GLM-4.5-Air".
C21_DefaultConfiguration ==
  (cfgPc = "loaded" /\ \A key \in EnvKeys : ~env[key].set) =>
    /\ loaded.LISTEN_PORT = 8080
    /\ loaded.PRIMARY_MODEL = <<"GLM-4.5">>
    /\ loaded.THINKING_MODEL = <<"GLM-4.5-Thinking">>
    /\ loaded.SEARCH_MODEL = <<"GLM-4.5-Search">>
    /\ loaded.AIR_MODEL = <<"GLM-4.5-Air">>

\* The content chunk of the initial answer: the text after </details> in
\* the edit_content of the model's frames. No delta_content holds it.
IsInitialAnswer(l) == l.kind = "chunk" /\ l.deltaKey = "content" /\ l.text = <<"first">>

\* C22: without tool mode the initial-answer case fires at most once in a
\* response: once the edit_content of an answer frame has given the
\* initial answer content, later frames contribute their delta_content
\* only, even when they carry an edit_content with </details>.
C22_InitialAnswerOnce ==
  ~hasTools => CountOf(out, IsInitialAnswer) <= 1

\* Everything after the first </details> of s, the empty text when s has
\* no </details>.
AfterFirstMarker(s) ==
  IF FindFrom(s, TagDetailsClose, 1) = 0 THEN <<>>
  ELSE Sub(s, FindFrom(s, TagDetailsClose, 1) + Len(TagDetailsClose), Len(s))

\* C23: the initial answer content taken from edit_content is everything
\* after the first </details> up to the end of edit_content, also when
\* edit_content holds more than one </details>; it is empty when there is
\* no </details>.
C23_EverythingAfterFirstMarker ==
  editPc = "extracted" => editOut = AfterFirstMarker(editIn)

\* C24: in tool mode no content chunk and no reasoning_content chunk is
\* emitted before the terminal condition: between the role chunk and the
\* terminal handling, a frame only appends its transformed content to
\* bufferedContent.
C24_ToolModeOnlyBuffers ==
  [][(hasTools /\ pc = "stream") =>
       /\ out = RoleOnly
       /\ pc' = "stream" =>
            /\ out' = out
            /\ Sub(bufferedContent', 1, Len(bufferedContent)) = bufferedContent
       /\ (pc' = "stream" /\ HandleFrame(ThinkingFrame)) =>
            bufferedContent' = bufferedContent \o transformThinkingContent(ThinkingMarkup)
       /\ (pc' = "stream" /\ HandleFrame(WorldFrame)) =>
            bufferedContent' = bufferedContent \o <<"world">>]_vars

\* Two frames were buffered in tool mode and nothing but the role chunk
\* was emitted.
C24_Witness ==
  /\ hasTools /\ pc = "stream" /\ nEvents = 2 /\ out = RoleOnly
  /\ bufferedContent = transformThinkingContent(ThinkingMarkup) \o <<"world">>

\* Extraction on the buffer succeeded at the terminal condition: it gave
\* a list of n >= 1 invocations, kept in this.toolCalls.
ExtractionSucceeded ==
  /\ hasTools /\ doneFrames = 1 /\ errorFrames = 0
  /\ toolCalls.kind = "list" /\ toolCalls.calls # <<>>

\* C25: at the terminal condition in tool mode, when extraction on the
\* buffer succeeds with n invocations, exactly n tool_calls chunks are
\* emitted, the k-th with index k-1 in extraction order, no content chunk
\* is emitted and the final chunk has finish_reason "tool_calls"; in every
\* other case the final chunk has finish_reason "stop".
C25_ToolCallChunks ==
  (pc = "done" /\ EndsWithTerminal(out)) =>
    IF ExtractionSucceeded
      THEN out = RoleOnly
                 \o [k \in 1..Len(toolCalls.calls) |->
                       ToolCallChunk(modelName, k - 1, toolCalls.calls[k])]
                 \o TerminalSequence(modelName, "tool_calls")
      ELSE out[Len(out) - 1].finish_reason = "stop"

\* The residual text as _sendEndChunk emits it: one content chunk, none when
\* the residual text is empty.
ResidualChunk(trimmedContent) ==
  IF trimmedContent = <<>> THEN <<>>
  ELSE <<createOpenAIResponseChunk(modelName, "content", trimmedContent, "none")>>

\* C26: at the terminal condition in tool mode, when no strategy recovers a
\* tool call from a non-empty buffer (a buffer with the natural-language
\* call phrase included), the residual text left by removeToolJsonContent
\* is emitted as one content chunk before the final chunk; the buffered text
\* is not dropped and no fault is raised.
C26_ResidualTextEmitted ==
  ( /\ hasTools /\ pc = "done" /\ doneFrames = 1 /\ errorFrames = 0
    /\ bufferedContent # <<>>
    /\ extractToolInvocations(bufferedContent).kind # "list" ) =>
      /\ thrown = 0
      /\ out = RoleOnly \o ResidualChunk(removeToolJsonContent(bufferedContent))
                        \o TerminalSequence(modelName, "stop")

\* Neither structural strategy (fenced blocks, inline scan) yields tool
\* calls from the scanned prefix.
StructuralFails(scannableText) ==
  ~OrElse(ExtractFromFences(scannableText, TOOL_CALL_FENCE_PATTERN(scannableText), 1),
          ExtractInline(scannableText, 1)).ok

\* The text holds the natural-language phrase with name f and the
\* arguments span {}, which is valid JSON.
HasCallPhrase(scannableText) ==
  /\ FUNCTION_CALL_PATTERN(scannableText) # <<>>
  /\ FUNCTION_CALL_PATTERN(scannableText)[1] = NaturalCall

\* C27: when neither structural strategy succeeds and the text contains
\* the natural-language phrase whose arguments span is valid JSON,
\* extractToolInvocations returns a list of exactly one invocation of type
\* "function" with function.name the name of the phrase, function.arguments
\* the arguments span, and a generated id.
C27_NaturalLanguageCall ==
  ( /\ toolPc # "build"
    /\ StructuralFails(Sub(responseText, 1, SCAN_LIMIT))
    /\ HasCallPhrase(Sub(responseText, 1, SCAN_LIMIT)) ) =>
      extracted = NaturalCallOf(<<"f">>, <<"{", "}">>)

\* jsonStr parses to an object with an array tool_calls.
HasArrayToolCalls(jsonStr) ==
  /\ JSONParse(jsonStr).ok
  /\ JSONParse(jsonStr).v.t = "obj"
  /\ GetProp(JSONParse(jsonStr).v, <<"tool_calls">>).t = "arr"

\* The tool_calls array of such a text, arguments made strings.
ArrayToolCallsOf(jsonStr) ==
  LET items == GetProp(JSONParse(jsonStr).v, <<"tool_calls">>).items
  IN [i \in 1..Len(items) |->
        IF items[i].t = "null" THEN items[i] ELSE NormalizeToolCall(items[i])]

\* The fenced json blocks of the text that parse to such an object.
ToolCallFences(s) ==
  SelectSeq(TOOL_CALL_FENCE_PATTERN(s), LAMBDA m : HasArrayToolCalls(Sub(s, m.b, m.e)))

\* The positions of a "{" whose balanced span parses to such an object.
ToolCallBraces(s) ==
  {i \in 1..Len(s) : /\ s[i] = "{" /\ BalancedEnd(s, i) # 0
                     /\ HasArrayToolCalls(Sub(s, i, BalancedEnd(s, i) - 1))}

Leftmost(S) == CHOOSE i \in S : \A j \in S : i <= j

\* What the order of the strategies makes of the scanned prefix: the first
\* such fenced block, else the leftmost such "{".
FirstSuccess(s) ==
  IF ToolCallFences(s) # <<>>
    THEN ExtractList(ArrayToolCallsOf(Sub(s, ToolCallFences(s)[1].b, ToolCallFences(s)[1].e)))
  ELSE IF ToolCallBraces(s) # {}
    THEN ExtractList(ArrayToolCallsOf(Sub(s, Leftmost(ToolCallBraces(s)),
                                          BalancedEnd(s, Leftmost(ToolCallBraces(s))) - 1)))
  ELSE ExtractNull

\* C28: the strategies are tried in a fixed order and the first success
\* wins: if a fenced json block of the scanned prefix parses to an object
\* with an array tool_calls, the result is the tool_calls of the first such
\* block, also when an inline tool_calls object stands earlier in the text;
\* otherwise the inline scan returns the tool_calls of the leftmost "{"
\* whose balanced span parses to such an object, nested ones included.
C28_FirstSuccessWins ==
  ( /\ toolPc # "build"
    /\ FirstSuccess(Sub(responseText, 1, SCAN_LIMIT)).kind = "list" ) =>
      extracted = FirstSuccess(Sub(responseText, 1, SCAN_LIMIT))

\* Every tool_calls object of the text starts before the limit and closes
\* after it.
CrossesLimit(s) ==
  /\ ToolCallFences(s) = <<>>
  /\ ToolCallBraces(s) # {}
  /\ \A i \in ToolCallBraces(s) : i <= SCAN_LIMIT /\ BalancedEnd(s, i) - 1 > SCAN_LIMIT

\* C29: extractToolInvocations depends only on the first SCAN_LIMIT
\* characters of the text: the result for a text is the result for its
\* SCAN_LIMIT-prefix, so texts with the same prefix give the same result,
\* and a tool_calls object that starts before the limit and closes after it
\* is not recovered.
C29_OnlyScannedPrefix ==
  toolPc # "build" =>
    /\ extracted = extractToolInvocations(Sub(responseText, 1, SCAN_LIMIT))
    /\ CrossesLimit(responseText) => extracted.kind # "list"

\* A text longer than the limit whose tool_calls object crosses the limit,
\* and for which a scan of the whole text would recover the call.
C29_Witness ==
  /\ toolPc # "build"
  /\ Len(responseText) > SCAN_LIMIT
  /\ CrossesLimit(responseText)
  /\ UnboundedExtract(responseText).kind = "list"
  /\ extracted = ExtractNull

\* The two shapes of a terminal frame in a non-streaming response.
DonePhaseFrame == Frame("done", <<>>, <<>>, FALSE, NoError)

\* C30: in both assemblers no frame that arrives after the first frame with
\* a terminal condition (done = true or phase = "done") is read or has an
\* effect on the output: once the streaming handler has handled such a
\* frame it takes no further event and its chunk sequence stays as it is;
\* such a frame ends the collecting loop of the non-streaming handler, after
\* which no event is taken and the body is built from the content collected
\* up to that frame.
C30_NothingAfterTerminal ==
  [][ /\ doneFrames >= 1 => (nEvents' = nEvents /\ out' = out)
      /\ (IsTerminalFrame(WorldDoneFrame) /\ FullFrame(WorldDoneFrame)) => fullPc' = "build"
      /\ (IsTerminalFrame(DonePhaseFrame) /\ FullFrame(DonePhaseFrame)) => fullPc' = "build"
      /\ fullPc \in {"build", "done"} =>
           (nFullEvents' = nFullEvents /\ fullContent' = fullContent)
      /\ fullPc = "build" =>
           fullResult' = BuildResponse(fullTools, fullContent) ]_vars

\* The streaming handler has finished after a terminal frame that was its
\* first event, with the upstream free to send one more.
C30_Witness ==
  /\ pc = "done" /\ doneFrames = 1 /\ errorFrames = 0
  /\ nEvents = 1 /\ nEvents < MaxEvents
  /\ EndsWithTerminal(out)

\* C31: in the non-streaming handler a frame carrying an error (error,
\* data.error or data.inner.error) stops translation: the delta_content of
\* that frame and of every later frame is not added to the content that
\* becomes message.content.
C31_ErrorFrameStopsCollecting ==
  [][fullErrors' >= 1 => fullContent' = fullContent]_vars

\* The complete lines of a text.
LinesOf(text) == SplitLines(text, LastIndexOf(text, "\n", Len(text)))

\* The lines of a body that yield an event, in order.
FieldLines(bytes) ==
  SelectSeq(LinesOf(DecodeFrom(bytes, 1, FALSE, <<>>).text),
            LAMBDA line : EventsOfLine(line) # <<>>)

\* The text after the first colon of a line, without one leading space.
FieldValue(line) ==
  LET after == Sub(line, IndexFrom(line, ":", 1) + 1, Len(line))
  IN IF after # <<>> /\ after[1] = " " THEN Tail(after) ELSE after

\* C32: for a field line field:value the value of the decoder's event is the
\* text after the first colon with at most one leading space removed; other
\* leading whitespace and all trailing whitespace are kept.
C32_OneLeadingSpaceRemoved ==
  sseDone =>
    /\ Len(events) = Len(FieldLines(body))
    /\ \A i \in 1..Len(events) :
         events[i].type # "retry" => events[i].value = FieldValue(FieldLines(body)[i])

\* C33: a retry line whose value does not parse as an integer produces no
\* event and raises nothing; every retry event the decoder yields carries
\* an integer.
C33_RetryIsInteger ==
  \A i \in 1..Len(events) : events[i].type = "retry" => events[i].retry # <<"NaN">>

\* The field of a line that yields an event.
FieldOf(line) == Trim(Sub(line, 1, IndexFrom(line, ":", 1) - 1))

\* Every data line of the body is yielded as a data event with its raw
\* value, is_json telling whether the value is JSON; iterJsonData yields
\* the JSON values that pass the schema and no other event.
DataEventsYielded ==
  /\ Len(events) = Len(FieldLines(body))
  /\ \A i \in 1..Len(events) :
       FieldOf(FieldLines(body)[i]) = <<"data">> =>
         /\ events[i].type = "data"
         /\ events[i].value = Trim(FieldValue(FieldLines(body)[i]))
         /\ events[i].is_json = JSONParse(events[i].value).ok
  /\ \A i \in 1..Len(iterJsonData(events)) :
       /\ iterJsonData(events)[i].type = "data"
       /\ JSONParse(iterJsonData(events)[i].value).ok
       /\ UpstreamDataSchema(JSONParse(iterJsonData(events)[i].value).v)

\* C34: a data line whose value is not valid JSON is yielded by the decoder
\* as a data event with is_json = false and the raw string, never as an
\* error; iterJsonData and both assemblers skip such events, and JSON frames
\* that fail the schema, without a change of output or translation state.
C34_MalformedFramesSkipped ==
  /\ [](sseDone => DataEventsYielded)
  /\ [][
      /\ (\E kind \in {"nonjson", "invalid"} : SkipEvent(kind)) =>
           UNCHANGED << pc, out, streamEnded, bufferedContent, toolCalls, sentInitialAnswer,
                        thrown, propagated >>
      /\ (\E kind \in {"nonjson", "invalid"} : FullSkipEvent(kind)) =>
           UNCHANGED << fullPc, fullContent, fullErrors, fullResult >> ]_vars

\* The decoder has read a body with a data line that is not JSON and one that
\* is JSON and fails the schema, and iterJsonData yields nothing, while it
\* yields the event of a line whose frame passes the schema.
C34_Witness ==
  /\ sseDone
  /\ \E i \in 1..Len(events) : events[i].type = "data" /\ ~events[i].is_json
                               /\ events[i].value = <<Char2>>
  /\ \E i \in 1..Len(events) : events[i].type = "data" /\ events[i].is_json
  /\ iterJsonData(events) = <<>>
  /\ iterJsonData(EventsOfLine(<<"data", ":">> \o ValidFrameJson)) # <<>>

\* The decoded text of the body up to and including its last newline.
UpToLastNewline(text) == Sub(text, 1, LastIndexOf(text, "\n", Len(text)))

\* C35: bytes that follow the last newline of the upstream body are never
\* decoded into an event: when the byte stream has ended, the events are
\* those of the lines up to the last newline, and a final line without a
\* terminating newline is discarded.
C35_UnterminatedLineDropped ==
  sseDone =>
    events = EventsOfLines(LinesOf(UpToLastNewline(DecodeFrom(body, 1, FALSE, <<>>).text)), 1)

\* The stream has ended on a line without a newline that would have been
\* a data event, and no event was yielded for it.
C35_Witness ==
  /\ sseDone
  /\ body = <<"data", ":">>
  /\ sseBuffer = body
  /\ EventsOfLine(sseBuffer) # <<>>
  /\ events = <<>>

\* A chunk with one non-empty delta field and no finish_reason.
IsDeltaChunk(l) ==
  /\ IsPayloadChunk(l)
  /\ l.finish_reason = "none"
  /\ l.deltaKey \in {"content", "reasoning_content"} => l.text # <<>>
  /\ l.deltaKey = "tool_calls" => l.call # JUndefined

\* C36: in every streaming response each chunk between the role chunk and
\* the final chunk carries exactly one non-empty delta field (content,
\* reasoning_content or tool_calls) and no finish_reason; finish_reason is
\* set only on the final chunk, which has an empty delta and stands
\* immediately before [DONE].
C36_ChunkShapes ==
  \A i \in 1..Len(out) :
    out[i].kind = "chunk" =>
      IF IsFinishChunk(out[i])
        THEN /\ out[i].deltaKey = "none"
             /\ i = Len(out) - 1
             /\ IsDoneLine(out[i + 1])
        ELSE i > 1 => IsDeltaChunk(out[i])

\* A finished response with a reasoning chunk and a content chunk between
\* the role chunk and the final chunk.
C36_Witness ==
  /\ pc = "done" /\ EndsWithTerminal(out) /\ Len(out) = 5
  /\ IsRoleChunk(out[1])
  /\ out[2].deltaKey = "reasoning_content"
  /\ out[3].deltaKey = "content"

\* C37: all chunks of one streaming response carry the same model name, on
\* every path: normal termination, termination by an upstream frame with
\* an error, and the synthetic termination after an exception.
C37_OneModelName ==
  \A i, j \in 1..Len(out) :
    (out[i].kind = "chunk" /\ out[j].kind = "chunk") => out[i].model = out[j].model

\* The entries of SUPPORTED_MODELS that an identifier names, by id or by
\* upstream id.
NamedBy(modelId) ==
  {i \in 1..Len(SUPPORTED_MODELS) :
     modelId \in {SUPPORTED_MODELS[i].id, SUPPORTED_MODELS[i].upstreamId}}

\* C38: for every entry m of SUPPORTED_MODELS, getModelConfig(m.id) and
\* getModelConfig(m.upstreamId) both return m; the fallback to the first
\* supported model happens only for identifiers that name no supported
\* model.
C38_EveryModelResolves ==
  \A k \in 1..Len(modelIds) :
    \A i \in NamedBy(modelIds[k]) : resolved[k] = SUPPORTED_MODELS[i]

\* The Authorization header is missing, does not start with "Bearer ", or
\* carries a key different from AUTH_TOKEN.
BadCredentials ==
  \/ ~authorization.set
  \/ Len(authorization.value) < 2
  \/ Sub(authorization.value, 1, 2) # <<"Bearer", " ">>
  \/ Sub(authorization.value, 3, Len(authorization.value)) # apiToken

\* C39: when SKIP_AUTH_TOKEN is false, a chat completions request whose
\* Authorization header is missing, does not start with "Bearer " or
\* carries a key different from AUTH_TOKEN gets status 401, and no token
\* fetch and no upstream call are made for it.
C39_UnauthorizedRejected ==
  (~skipAuthToken /\ BadCredentials /\ routerPc # "idle") =>
    /\ tokenFetches = 0
    /\ upstreamCalls = 0
    /\ routerPc \in {"auth", "done"}
    /\ routerPc = "done" => status = 401

\* A request with a well-formed header and a wrong key has been answered.
C39_Witness ==
  /\ ~skipAuthToken /\ routerPc = "done" /\ status = 401
  /\ authorization = Header(<<"Bearer", " ", "wrong">>)
  /\ bodyValid

====
